---- MODULE Spec2Model ----
(***************************************************************************)
(* Verification model of the crowdfunding workshop demo:                   *)
(*   - the data-carrying token codec (src/src/pushdrop-token.ts),          *)
(*   - the ASM-text decoder (src/src/findPushDropTokens.ts),               *)
(*   - the manual spendable-token builder (src/unnamed/part_001),          *)
(*   - the campaign ledger handlers (invest / complete / claim).           *)
(* Each part has its own specification (SpecToken, SpecAsm, SpecBuilder,   *)
(* SpecLedger); the variables of the other parts stay at their idle value. *)
(***************************************************************************)
EXTENDS Integers, Sequences, FiniteSets, TLC

VARIABLES
    \* --- token codec (pushdrop-token.ts, test-pushdrop.ts) ---
    tokInvestors,   \* the payloads the transaction is built for
    tokOutputs,     \* tx.outputs: sequence of [kind, chunks]
    tokParsed,      \* parsePushDropToken result for each output parsed so far
    tokPc,          \* "init" | "built" | "parsed"
    \* --- ASM decoder (findPushDropTokens.ts) ---
    asmIn,          \* scriptAsm: a string, as a sequence of characters
    asmOut,         \* decodePushDropScript result
    asmPc,          \* "init" | "decoded"
    \* --- manual spendable-token builder (part_001) ---
    bldIn,          \* [amount, receiverPubKey (hex characters), iv]
    bldOut,         \* what createInvestorToken returned
    bldPc,          \* "init" | "built"
    \* --- campaign ledger and its request handlers ---
    deployment,     \* which server is running: "express" | "api" | "claim"
    crowdfunding,   \* the in-memory CrowdfundingState
    disk,           \* crowdfunding-data.json: [exists, state]
    pc,             \* per request: where its handler stands
    req,            \* per request: its input and the handler's local variables
    txLog,          \* transactions the backend wallet created (createAction)
    paid,           \* per identity key: satoshis of the payments the wallet accepted
    \* --- a single call of one of the program's functions ---
    callFn,         \* the function called
    callArgs,       \* its arguments
    callResult,     \* what the call produced
    callPc          \* "init" | "returned"

tokVars == <<tokInvestors, tokOutputs, tokParsed, tokPc>>
asmVars == <<asmIn, asmOut, asmPc>>
bldVars == <<bldIn, bldOut, bldPc>>
ledVars == <<deployment, crowdfunding, disk, pc, req, txLog, paid>>
callVars == <<callFn, callArgs, callResult, callPc>>
vars == <<tokVars, asmVars, bldVars, ledVars, callVars>>

(***************************************************************************)
(* The idle value of each part's variables (used by the other parts'       *)
(* specifications).                                                        *)
(***************************************************************************)
TokIdle ==
    /\ tokInvestors = <<>>
    /\ tokOutputs = <<>>
    /\ tokParsed = <<>>
    /\ tokPc = "idle"

AsmIdle ==
    /\ asmIn = <<>>
    /\ asmOut = [isValid |-> FALSE, hasPublicKey |-> FALSE, publicKey |-> <<>>,
                 hasDataFields |-> FALSE, dataFields |-> <<>>]
    /\ asmPc = "idle"

BldIdle ==
    /\ bldIn = [amount |-> 0, receiverPubKey |-> <<>>, iv |-> 0]
    /\ bldOut = [returned |-> FALSE, threw |-> FALSE, chunks |-> <<>>]
    /\ bldPc = "idle"

LedIdle ==
    /\ deployment = "none"
    /\ crowdfunding = [goal |-> 0, raised |-> 0, investors |-> <<>>, isComplete |-> FALSE,
                       completionTxid |-> 0]
    /\ disk = [exists |-> FALSE, state |-> crowdfunding]
    /\ pc = <<>>
    /\ req = <<>>
    /\ txLog = <<>>
    /\ paid = <<>>

CallIdle ==
    /\ callFn = "none"
    /\ callArgs = <<>>
    /\ callResult = <<>>
    /\ callPc = "idle"

(***************************************************************************)
(* Bounds of the model.                                                    *)
(***************************************************************************)
MaxBatch == 2       \* investors in one batch transaction (testBatchTokens uses 3)

(***************************************************************************)
(* Generic helpers.                                                        *)
(***************************************************************************)
Pow256(k) == IF k = 0 THEN 1 ELSE IF k = 1 THEN 256 ELSE IF k = 2 THEN 65536 ELSE 16777216

\* k little-endian bytes of n (0 <= n < 2^31, k <= 4).
LEBytes(n, k) == [i \in 1..k |-> (n \div Pow256(i - 1)) % 256]

Repeat(b, n) == [i \in 1..n |-> b]

SeqsUpTo(S, n) == UNION {[1..k -> S] : k \in 0..n}

Absent == [present |-> FALSE, value |-> <<>>]
Some(v) == [present |-> TRUE, value |-> v]

(***************************************************************************)
(* Script opcodes used by the code (values of OP in @bsv/sdk).             *)
(***************************************************************************)
OP_FALSE == 0
OP_PUSHDATA1 == 76
OP_PUSHDATA2 == 77
OP_PUSHDATA4 == 78
OP_RETURN == 106
OP_DROP == 117
OP_DUP == 118
OP_EQUALVERIFY == 136
OP_HASH160 == 169
OP_CHECKSIG == 172

OpChunk(op) == [op |-> op, hasData |-> FALSE, data |-> <<>>]
PushChunk(op, data) == [op |-> op, hasData |-> TRUE, data |-> data]

\* Script.writeBin of @bsv/sdk: the push opcode is chosen from the data length.
WriteBin(bin) ==
    LET n == Len(bin)
        op == IF n > 0 /\ n < OP_PUSHDATA1 THEN n
              ELSE IF n = 0 THEN OP_FALSE
              ELSE IF n < 256 THEN OP_PUSHDATA1
              ELSE IF n < 65536 THEN OP_PUSHDATA2
              ELSE OP_PUSHDATA4
    IN PushChunk(op, bin)

\* A data chunk whose opcode is a push opcode that declares the length of its data:
\* a direct push (opcode = length) for 1 to 75 bytes, or OP_PUSHDATA1/2/4 whose
\* length prefix can hold the length.
IsValidPush(chunk) ==
    /\ chunk.hasData
    /\ \/ chunk.op \in 1..(OP_PUSHDATA1 - 1) /\ Len(chunk.data) = chunk.op
       \/ chunk.op = OP_PUSHDATA1 /\ Len(chunk.data) < 256
       \/ chunk.op = OP_PUSHDATA2 /\ Len(chunk.data) < 65536
       \/ chunk.op = OP_PUSHDATA4

(***************************************************************************)
(* Strings are sequences of code points (< 2048); Buffer.from(s, 'utf8')   *)
(* and buffer.toString('utf8') are the UTF-8 encoder and decoder.          *)
(***************************************************************************)
RECURSIVE Utf8Encode(_)
Utf8Encode(s) ==
    IF s = <<>> THEN <<>>
    ELSE IF Len(s) = 1
         THEN (IF s[1] < 128 THEN <<s[1]>>
               ELSE <<192 + (s[1] \div 64), 128 + (s[1] % 64)>>)
    ELSE Utf8Encode(SubSeq(s, 1, Len(s) \div 2))
         \o Utf8Encode(SubSeq(s, Len(s) \div 2 + 1, Len(s)))

ReplacementChar == 65533

RECURSIVE Utf8Decode(_)
Utf8Decode(b) ==
    IF b = <<>> THEN <<>>
    ELSE LET b1 == Head(b)
         IN IF b1 < 128 THEN <<b1>> \o Utf8Decode(Tail(b))
            ELSE IF b1 >= 194 /\ b1 < 224 /\ Len(b) >= 2 /\ b[2] >= 128 /\ b[2] < 192
                 THEN <<(b1 - 192) * 64 + (b[2] - 128)>> \o Utf8Decode(Tail(Tail(b)))
            ELSE <<ReplacementChar>> \o Utf8Decode(Tail(b))

(***************************************************************************)
(* bigint values: sign and 8-byte little-endian magnitude (TLC integers    *)
(* are 32 bits wide, so 64-bit values are kept as byte digits).            *)
(***************************************************************************)
BigInt(neg, mag) == [neg |-> neg, mag |-> mag]
BigZero == BigInt(FALSE, Repeat(0, 8))
BigOfNat(n) == BigInt(FALSE, LEBytes(n, 4) \o Repeat(0, 4))
BigNegOfNat(n) == BigInt(TRUE, LEBytes(n, 4) \o Repeat(0, 4))
BigMaxInt64 == BigInt(FALSE, Repeat(255, 7) \o <<127>>)
BigMinInt64 == BigInt(TRUE, Repeat(0, 7) \o <<128>>)

\* b + 1 modulo 2^(8 * Len(b)), little-endian.
RECURSIVE AddOne(_)
AddOne(b) ==
    IF b = <<>> THEN <<>>
    ELSE IF Head(b) = 255 THEN <<0>> \o AddOne(Tail(b))
    ELSE <<Head(b) + 1>> \o Tail(b)

TwosComplement(b) == AddOne([i \in 1..Len(b) |-> 255 - b[i]])

\* Buffer.alloc(8); buffer.writeBigInt64LE(value)
bigIntToBuffer(value) ==
    IF value.neg THEN TwosComplement(value.mag) ELSE value.mag

\* padded.readBigInt64LE()
ReadBigInt64LE(b) ==
    IF b[8] >= 128 THEN BigInt(TRUE, TwosComplement(b)) ELSE BigInt(FALSE, b)

\* buffer.copy(padded) copies min(Len, 8) bytes into the zeroed 8-byte buffer.
bufferToBigInt(buffer) ==
    IF Len(buffer) = 0 THEN BigZero
    ELSE ReadBigInt64LE([i \in 1..8 |-> IF i <= Len(buffer) THEN buffer[i] ELSE 0])

(***************************************************************************)
(* JSON.stringify / JSON.parse restricted to Record<string, string>: a     *)
(* record is a sequence of <<key, value>> pairs in enumeration order.      *)
(* Strings hold no control characters.  Texts that are not an object of    *)
(* strings are outside the model and reported as a parse failure.          *)
(***************************************************************************)
JsonQuote(s) ==
    LET RECURSIVE Esc(_)
        Esc(x) == IF x = <<>> THEN <<>>
                  ELSE IF Len(x) = 1
                       THEN (IF x[1] \in {34, 92} THEN <<92, x[1]>> ELSE x)
                  ELSE Esc(SubSeq(x, 1, Len(x) \div 2))
                       \o Esc(SubSeq(x, Len(x) \div 2 + 1, Len(x)))
    IN <<34>> \o Esc(s) \o <<34>>

RECURSIVE JsonMembersText(_)
JsonMembersText(m) ==
    IF m = <<>> THEN <<>>
    ELSE JsonQuote(Head(m)[1]) \o <<58>> \o JsonQuote(Head(m)[2])
         \o (IF Len(m) > 1 THEN <<44>> ELSE <<>>) \o JsonMembersText(Tail(m))

JsonStringify(m) == <<123>> \o JsonMembersText(m) \o <<125>>

JsonFail == [ok |-> FALSE, pos |-> 0, value |-> <<>>]

RECURSIVE SkipWs(_, _)
SkipWs(t, i) == IF i <= Len(t) /\ t[i] \in {32, 9, 10, 13} THEN SkipWs(t, i + 1) ELSE i

RECURSIVE JsonStringBody(_, _, _)
JsonStringBody(t, i, acc) ==
    IF i > Len(t) THEN JsonFail
    ELSE IF t[i] = 34 THEN [ok |-> TRUE, pos |-> i + 1, value |-> acc]
    ELSE IF t[i] = 92
         THEN IF i + 1 <= Len(t) /\ t[i + 1] \in {34, 92, 47}
              THEN JsonStringBody(t, i + 2, Append(acc, t[i + 1]))
              ELSE JsonFail
    ELSE IF t[i] < 32 THEN JsonFail
    ELSE JsonStringBody(t, i + 1, Append(acc, t[i]))

JsonReadString(t, i) ==
    IF i <= Len(t) /\ t[i] = 34 THEN JsonStringBody(t, i + 1, <<>>) ELSE JsonFail

RECURSIVE JsonMembers(_, _, _)
JsonMembers(t, i, acc) ==
    LET k == JsonReadString(t, i)
    IN IF ~k.ok THEN JsonFail
       ELSE LET c == SkipWs(t, k.pos)
            IN IF c > Len(t) \/ t[c] # 58 THEN JsonFail
               ELSE LET v == JsonReadString(t, SkipWs(t, c + 1))
                    IN IF ~v.ok THEN JsonFail
                       ELSE LET e == SkipWs(t, v.pos)
                                acc2 == Append(acc, <<k.value, v.value>>)
                            IN IF e > Len(t) THEN JsonFail
                               ELSE IF t[e] = 125
                                    THEN [ok |-> TRUE, pos |-> e + 1, value |-> acc2]
                               ELSE IF t[e] = 44
                                    THEN JsonMembers(t, SkipWs(t, e + 1), acc2)
                               ELSE JsonFail

JsonParse(t) ==
    LET s == SkipWs(t, 1)
    IN IF s > Len(t) \/ t[s] # 123 THEN JsonFail
       ELSE LET m == SkipWs(t, s + 1)
                r == IF m <= Len(t) /\ t[m] = 125
                     THEN [ok |-> TRUE, pos |-> m + 1, value |-> <<>>]
                     ELSE JsonMembers(t, m, <<>>)
            IN IF r.ok /\ SkipWs(t, r.pos) > Len(t) THEN r ELSE JsonFail

(***************************************************************************)
(* Token payloads (PushDropTokenData).  A public key is represented by its *)
(* compressed encoding, so investorPublicKey.encode(true) are its bytes.   *)
(***************************************************************************)
CROWDFUND == <<67, 82, 79, 87, 68, 70, 85, 78, 68>>

KeyA == <<2>> \o Repeat(17, 32)
KeyB == <<3>> \o Repeat(34, 32)

Ts2023 == 1700000000

Payload(amount, key, ts, campaignId, metadata) ==
    [protocolId |-> CROWDFUND, investmentAmount |-> amount, investorPublicKey |-> key,
     timestamp |-> ts, campaignId |-> campaignId, metadata |-> metadata]

\* Inputs of the single-token round trip (testParseToken, generalised).
TokenAmounts == {BigZero, BigOfNat(50000), BigOfNat(75000), BigNegOfNat(1), BigMaxInt64, BigMinInt64}
TokenKeys == {KeyA, KeyB}
TokenTimestamps == {0, Ts2023}
TokenCampaignIds == {Absent, Some(<<>>), Some(<<99, 45, 233>>)}
TokenMetadata == {Absent, Some(<<>>), Some(<< <<(<<107>>), (<<118, 34>>)>> >>)}

TokenPayloads ==
    {Payload(a, k, t, c, m) : a \in TokenAmounts, k \in TokenKeys, t \in TokenTimestamps,
                              c \in TokenCampaignIds, m \in TokenMetadata}

\* Inputs of the batch transaction (testBatchTokens: a shared campaignId, no metadata).
BatchPayloads ==
    {Payload(a, k, Ts2023, c, Absent) :
        a \in {BigOfNat(10000), BigOfNat(25000)}, k \in TokenKeys,
        c \in {Absent, Some(<<99, 49>>)}}

\* JS truthiness of data.campaignId (a string): the empty string is falsy.
TruthyString(opt) == opt.present /\ opt.value # <<>>

\* createPushDropTokenScript(data): the chunks of the script.
createPushDropTokenScript(data) ==
    <<OpChunk(OP_FALSE),
      OpChunk(OP_RETURN),
      WriteBin(Utf8Encode(data.protocolId)),
      WriteBin(bigIntToBuffer(data.investmentAmount)),
      WriteBin(data.investorPublicKey),
      WriteBin(LEBytes(data.timestamp, 4))>>
    \o (IF TruthyString(data.campaignId)
        THEN <<WriteBin(Utf8Encode(data.campaignId.value))>> ELSE <<>>)
    \o (IF data.metadata.present
        THEN <<WriteBin(Utf8Encode(JsonStringify(data.metadata.value)))>> ELSE <<>>)

\* new P2PKH().lock(pubKey.toAddress()): the address hash is an opaque 20-byte value.
Hash160(key) == [i \in 1..20 |-> (key[i] + 7 * key[i + 13] + i) % 256]

P2PKHLock(key) ==
    <<OpChunk(OP_DUP), OpChunk(OP_HASH160), WriteBin(Hash160(key)),
      OpChunk(OP_EQUALVERIFY), OpChunk(OP_CHECKSIG)>>

(***************************************************************************)
(* parsePushDropToken.                                                     *)
(***************************************************************************)
NullToken ==
    [isNull |-> TRUE, protocolId |-> <<>>, investmentAmount |-> BigZero,
     investorPublicKey |-> <<>>, timestamp |-> 0, campaignId |-> Absent, metadata |-> Absent]

\* PublicKey.fromString(hex) accepts a point encoding and throws otherwise
\* (curve membership is not modelled).
IsPointEncoding(b) ==
    \/ Len(b) = 33 /\ b[1] \in {2, 3}
    \/ Len(b) = 65 /\ b[1] = 4

\* chunks[i].data || []   (0-based index i)
DataOrEmpty(chunks, i) == IF chunks[i + 1].hasData THEN chunks[i + 1].data ELSE <<>>

\* chunks[i]?.data is truthy (an array, even an empty one, is truthy)
HasData(chunks, i) == i + 1 <= Len(chunks) /\ chunks[i + 1].hasData

\* The value of `undefined` where a number is expected.
UndefinedNumber == -1

\* new Uint32Array(Buffer.from(data).buffer)[0]: Buffer.from(array) of fewer than
\* 4096 bytes is carved out of Node's shared 8 KiB allocation pool, and .buffer is
\* the whole pool, so element 0 is the first word of the pool (poolWord), whatever
\* was allocated there, not the word at the buffer's own offset.
ReadUint32ViaBuffer(data, poolWord) ==
    IF Len(data) = 0 THEN UndefinedNumber ELSE poolWord

PoolWords == {0, Ts2023, 1464816195}

\* The parser, with the (0-based) index of the protocol id chunk as a parameter.
ParseTokenAt(chunks, poolWord, protoIdx) ==
    IF Len(chunks) < 5 THEN NullToken
    ELSE IF chunks[1].op # OP_FALSE THEN NullToken
    ELSE IF chunks[2].op # OP_RETURN THEN NullToken
    ELSE LET protocolId == Utf8Decode(DataOrEmpty(chunks, protoIdx))
         IN IF protocolId # CROWDFUND THEN NullToken
            ELSE LET keyBytes == DataOrEmpty(chunks, 4)
                 IN IF ~IsPointEncoding(keyBytes) THEN NullToken   \* thrown, caught
                    ELSE LET meta == IF HasData(chunks, 7)
                                     THEN JsonParse(Utf8Decode(chunks[8].data))
                                     ELSE [ok |-> TRUE, pos |-> 0, value |-> <<>>]
                         IN IF ~meta.ok THEN NullToken             \* thrown, caught
                            ELSE [isNull |-> FALSE,
                                  protocolId |-> protocolId,
                                  investmentAmount |-> bufferToBigInt(DataOrEmpty(chunks, 3)),
                                  investorPublicKey |-> keyBytes,
                                  timestamp |-> IF HasData(chunks, 5)
                                                THEN ReadUint32ViaBuffer(chunks[6].data, poolWord)
                                                ELSE 0,
                                  campaignId |-> IF HasData(chunks, 6)
                                                 THEN Some(Utf8Decode(chunks[7].data))
                                                 ELSE Absent,
                                  metadata |-> IF HasData(chunks, 7)
                                               THEN Some(meta.value) ELSE Absent]

\* The parser with the protocol id read one chunk too far (from the amount chunk).
parsePushDropToken_ProtocolOffByOne(chunks, poolWord) == ParseTokenAt(chunks, poolWord, 3)

parsePushDropToken(chunks, poolWord) == ParseTokenAt(chunks, poolWord, 2)

(***************************************************************************)
(* Token codec specification: build a transaction holding, per investor,   *)
(* a token output and a P2PKH payment output, then a P2PKH change output   *)
(* (testBatchTokens; a single payload is testParseToken), and parse every  *)
(* output.                                                                 *)
(***************************************************************************)
FundingKey == <<2>> \o Repeat(51, 32)

RECURSIVE BatchOutputs(_)
BatchOutputs(investors) ==
    IF investors = <<>> THEN <<>>
    ELSE <<[kind |-> "token", chunks |-> createPushDropTokenScript(Head(investors))],
           [kind |-> "payment", chunks |-> P2PKHLock(Head(investors).investorPublicKey)]>>
         \o BatchOutputs(Tail(investors))

TokInit ==
    /\ tokInvestors \in {<<p>> : p \in TokenPayloads} \cup SeqsUpTo(BatchPayloads, MaxBatch)
    /\ tokOutputs = <<>>
    /\ tokParsed = <<>>
    /\ tokPc = "init"
    /\ AsmIdle /\ BldIdle /\ LedIdle /\ CallIdle

TokBuild ==
    /\ tokPc = "init"
    /\ tokOutputs' = BatchOutputs(tokInvestors)
                     \o <<[kind |-> "change", chunks |-> P2PKHLock(FundingKey)]>>
    /\ tokPc' = "built"
    /\ UNCHANGED <<tokInvestors, tokParsed, asmVars, bldVars, ledVars, callVars>>

TokParseNext ==
    /\ tokPc = "built"
    /\ Len(tokParsed) < Len(tokOutputs)
    /\ \E poolWord \in PoolWords :
          tokParsed' = Append(tokParsed,
                              parsePushDropToken(tokOutputs[Len(tokParsed) + 1].chunks, poolWord))
    /\ tokPc' = IF Len(tokParsed) + 1 = Len(tokOutputs) THEN "parsed" ELSE "built"
    /\ UNCHANGED <<tokInvestors, tokOutputs, asmVars, bldVars, ledVars, callVars>>

TokNext == TokBuild \/ TokParseNext

SpecToken == TokInit /\ [][TokNext]_vars

\* The payload an output was built from (token outputs sit at the odd positions).
PayloadOfOutput(i) == tokInvestors[(i + 1) \div 2]

TokenFieldsEqual(t, p) ==
    /\ ~t.isNull
    /\ t.investmentAmount = p.investmentAmount
    /\ t.investorPublicKey = p.investorPublicKey
    /\ t.timestamp = p.timestamp
    /\ t.campaignId = p.campaignId
    /\ t.metadata = p.metadata

\* C1: parsePushDropToken(createPushDropTokenScript(p)) is non-null and equal to p
\* field for field, for every payload p (campaignId and metadata present or absent).
C1_RoundTrip ==
    \A i \in 1..Len(tokParsed) :
        tokOutputs[i].kind = "token" => TokenFieldsEqual(tokParsed[i], PayloadOfOutput(i))

\* The number of optional fields a payload gives.
OptionalGiven(p) ==
    (IF p.campaignId.present THEN 1 ELSE 0) + (IF p.metadata.present THEN 1 ELSE 0)

\* The chunk layout of the data-carrying variant for payload p.
HasTokenLayout(chunks, p) ==
    /\ Len(chunks) = 6 + OptionalGiven(p)
    /\ chunks[1] = OpChunk(OP_FALSE)
    /\ chunks[2] = OpChunk(OP_RETURN)
    /\ \A i \in 3..Len(chunks) : IsValidPush(chunks[i]) \/ chunks[i] = PushChunk(OP_FALSE, <<>>)
    /\ chunks[3].data = Utf8Encode(p.protocolId)
    /\ Len(chunks[4].data) = 8 /\ ReadBigInt64LE(chunks[4].data) = p.investmentAmount
    /\ Len(chunks[5].data) = 33 /\ chunks[5].data = p.investorPublicKey
    /\ chunks[6].data = LEBytes(p.timestamp, 4)
    /\ p.campaignId.present => chunks[7].data = Utf8Encode(p.campaignId.value)
    /\ p.metadata.present =>
           chunks[Len(chunks)].data = Utf8Encode(JsonStringify(p.metadata.value))

\* C12: createPushDropTokenScript emits OP_FALSE, OP_RETURN, then one push each for
\* protocolId, amount (8 bytes LE), owner key (33 bytes), timestamp (4 bytes LE),
\* then a campaignId push only if campaignId is given and a metadata push only if
\* metadata is given; the chunk count is 6 plus the number of optional fields given.
C12_TokenScriptLayout ==
    \A i \in 1..Len(tokOutputs) :
        tokOutputs[i].kind = "token" => HasTokenLayout(tokOutputs[i].chunks, PayloadOfOutput(i))

Count(seq, P(_)) == Cardinality({i \in 1..Len(seq) : P(seq[i])})

IsTokenOutput(o) == o.kind = "token"
IsParsedToken(t) == ~t.isNull

\* C8: in a transaction with one token output and one P2PKH payment output per
\* investor plus a P2PKH change output, parsePushDropToken returns a token for
\* exactly the token outputs and null for every P2PKH output, so the number of
\* parsed tokens equals the number of investors.
C8_BatchTokensParsed ==
    /\ \A i \in 1..Len(tokParsed) : IsParsedToken(tokParsed[i]) <=> IsTokenOutput(tokOutputs[i])
    /\ tokPc = "parsed" => Count(tokParsed, IsParsedToken) = Len(tokInvestors)

C8_Witness ==
    /\ tokPc = "parsed"
    /\ Len(tokInvestors) >= 2
    /\ Len(tokOutputs) = 2 * Len(tokInvestors) + 1
    /\ Count(tokParsed, IsParsedToken) = Len(tokInvestors)

(***************************************************************************)
(* decodePushDropScript (findPushDropTokens.ts).  A string is a sequence   *)
(* of one-character strings.                                               *)
(***************************************************************************)
MaxAsmTokens == 3   \* tokens of a freely generated ASM string
MaxAsmFields == 2   \* data fields of a generated PushDrop-shaped ASM string

ASM_OP_DROP == <<"O", "P", "_", "D", "R", "O", "P">>
ASM_OP_2DROP == <<"O", "P", "_", "2", "D", "R", "O", "P">>
ASM_OP_CHECKSIG == <<"O", "P", "_", "C", "H", "E", "C", "K", "S", "I", "G">>
ASM_OP_DUP == <<"O", "P", "_", "D", "U", "P">>
ASM_OP_HASH160 == <<"O", "P", "_", "H", "A", "S", "H", "1", "6", "0">>
ASM_OP_EQUALVERIFY == <<"O", "P", "_", "E", "Q", "U", "A", "L", "V", "E", "R", "I", "F", "Y">>
AsmData1 == <<"a", "b", "1", "2">>
AsmData2 == <<"0", "f">>
AsmKey1 == <<"0", "2", "a", "a">>
AsmKey2 == <<"0", "3", "b", "b">>

\* scriptAsm.split(' '): every space ends a part, so "" gives one empty part and
\* two spaces in a row give an empty part between them.
RECURSIVE SplitOnSpace(_, _, _)
SplitOnSpace(str, cur, acc) ==
    IF str = <<>> THEN Append(acc, cur)
    ELSE IF Head(str) = " " THEN SplitOnSpace(Tail(str), <<>>, Append(acc, cur))
    ELSE SplitOnSpace(Tail(str), Append(cur, Head(str)), acc)

Split(str) == SplitOnSpace(str, <<>>, <<>>)

\* parts.join(' ')
RECURSIVE JoinWithSpace(_)
JoinWithSpace(parts) ==
    IF parts = <<>> THEN <<>>
    ELSE IF Len(parts) = 1 THEN Head(parts)
    ELSE Head(parts) \o <<" ">> \o JoinWithSpace(Tail(parts))

\* part.startsWith('OP_')
StartsWithOP(part) == Len(part) >= 3 /\ SubSeq(part, 1, 3) = <<"O", "P", "_">>

\* !!publicKey for a string or undefined
TruthyOptString(has, str) == has /\ str # <<>>

AsmResult(hasKey, key, fields) ==
    [isValid |-> TruthyOptString(hasKey, key), hasPublicKey |-> hasKey, publicKey |-> key,
     hasDataFields |-> TRUE, dataFields |-> fields]

\* The for loop of decodePushDropScript from (1-based) position i on.
RECURSIVE DecodeLoop(_, _, _)
DecodeLoop(parts, i, dataFields) ==
    IF i > Len(parts) THEN AsmResult(FALSE, <<>>, dataFields)
    ELSE LET part == parts[i]
         IN IF part = ASM_OP_DROP \/ part = ASM_OP_2DROP
            THEN DecodeLoop(parts, i + 1, dataFields)
            ELSE IF part = ASM_OP_CHECKSIG
                 THEN IF i > 1 THEN AsmResult(TRUE, parts[i - 1], dataFields)
                      ELSE AsmResult(FALSE, <<>>, dataFields)
            ELSE IF ~StartsWithOP(part)
                 THEN DecodeLoop(parts, i + 1, Append(dataFields, part))
            ELSE DecodeLoop(parts, i + 1, dataFields)

decodePushDropScript(scriptAsm) == DecodeLoop(Split(scriptAsm), 1, <<>>)

AsmDataWords == {AsmData1, AsmData2}
AsmKeyWords == {AsmKey1, AsmKey2}
AsmVocabulary ==
    {ASM_OP_DROP, ASM_OP_2DROP, ASM_OP_CHECKSIG, ASM_OP_DUP, AsmData1, AsmKey1, <<>>}

\* d1 OP_DROP ... dn OP_DROP k OP_CHECKSIG
RECURSIVE DropPairs(_)
DropPairs(ds) ==
    IF ds = <<>> THEN <<>> ELSE <<Head(ds), ASM_OP_DROP>> \o DropPairs(Tail(ds))

PushDropAsm(ds, k) == JoinWithSpace(DropPairs(ds) \o <<k, ASM_OP_CHECKSIG>>)

\* OP_DUP OP_HASH160 <hash> OP_EQUALVERIFY OP_CHECKSIG
P2PKHAsm(hash) ==
    JoinWithSpace(<<ASM_OP_DUP, ASM_OP_HASH160, hash, ASM_OP_EQUALVERIFY, ASM_OP_CHECKSIG>>)

AsmInputs ==
    {JoinWithSpace(ws) : ws \in SeqsUpTo(AsmVocabulary, MaxAsmTokens)}
    \cup {PushDropAsm(ds, k) : ds \in SeqsUpTo(AsmDataWords, MaxAsmFields), k \in AsmKeyWords}
    \cup {P2PKHAsm(h) : h \in AsmDataWords}

AsmInit ==
    /\ asmIn \in AsmInputs
    /\ asmOut = AsmResult(FALSE, <<>>, <<>>)
    /\ asmPc = "init"
    /\ TokIdle /\ BldIdle /\ LedIdle /\ CallIdle

AsmDecode ==
    /\ asmPc = "init"
    /\ asmOut' = decodePushDropScript(asmIn)
    /\ asmPc' = "decoded"
    /\ UNCHANGED <<asmIn, tokVars, bldVars, ledVars, callVars>>

AsmNext == AsmDecode

SpecAsm == AsmInit /\ [][AsmNext]_vars

\* Token-level reading of the input, for stating the claims.
AsmTokens == Split(asmIn)
IsDataToken(t) == t # <<>> /\ ~StartsWithOP(t)

IsP2PKHForm(ts) ==
    /\ Len(ts) = 5
    /\ ts[1] = ASM_OP_DUP /\ ts[2] = ASM_OP_HASH160 /\ IsDataToken(ts[3])
    /\ ts[4] = ASM_OP_EQUALVERIFY /\ ts[5] = ASM_OP_CHECKSIG

IsPushDropForm(ts) ==
    /\ Len(ts) >= 2 /\ Len(ts) % 2 = 0
    /\ ts[Len(ts)] = ASM_OP_CHECKSIG
    /\ IsDataToken(ts[Len(ts) - 1])
    /\ \A j \in 1..(Len(ts) \div 2 - 1) : IsDataToken(ts[2 * j - 1]) /\ ts[2 * j] = ASM_OP_DROP

\* d1..dn of a PushDrop-form token sequence
PushDropFields(ts) == [j \in 1..(Len(ts) \div 2 - 1) |-> ts[2 * j - 1]]

\* C6: the ASM of a standard hash-based payment script decodes to isValid = FALSE
\* with no publicKey.
C6_P2PKHRejected ==
    (asmPc = "decoded" /\ IsP2PKHForm(AsmTokens))
        => (~asmOut.isValid /\ ~asmOut.hasPublicKey)

\* C7: when no data token immediately precedes an OP_CHECKSIG (in particular when the
\* string holds no OP_CHECKSIG at all), decodePushDropScript returns isValid = FALSE.
NoDataBeforeCheckSig(ts) ==
    \A i \in 1..Len(ts) : ts[i] = ASM_OP_CHECKSIG => (i = 1 \/ ~IsDataToken(ts[i - 1]))

C7_NoKeyNoToken ==
    (asmPc = "decoded" /\ NoDataBeforeCheckSig(AsmTokens)) => ~asmOut.isValid

\* C9: for d1 OP_DROP ... dn OP_DROP k OP_CHECKSIG the result has publicKey = k and
\* dataFields = <<d1, ..., dn>> in encounter order, the owner key k not among them.
C9_FieldsAndKey ==
    (asmPc = "decoded" /\ IsPushDropForm(AsmTokens))
        => /\ asmOut.isValid
           /\ asmOut.publicKey = AsmTokens[Len(AsmTokens) - 1]
           /\ asmOut.dataFields = PushDropFields(AsmTokens)

(***************************************************************************)
(* createInvestorToken, the manual script builder (part_001).              *)
(* receiverPubKey is a hex string (code points of its characters).         *)
(***************************************************************************)
HexDigit(v) == IF v < 10 THEN 48 + v ELSE 87 + v
HexValue(c) == IF c >= 48 /\ c <= 57 THEN c - 48
               ELSE IF c >= 97 /\ c <= 102 THEN c - 87
               ELSE c - 55

\* The hex text of a byte array (how an identity key string is written).
HexEncode(bytes) ==
    [i \in 1..(2 * Len(bytes)) |->
        IF i % 2 = 1 THEN HexDigit(bytes[(i + 1) \div 2] \div 16)
        ELSE HexDigit(bytes[i \div 2] % 16)]

\* Utils.toArray(msg, 'hex'): an odd-length text gets a leading '0', then every two
\* characters make one byte.
HexToArray(msg) ==
    LET m == IF Len(msg) % 2 # 0 THEN <<48>> \o msg ELSE msg
    IN [i \in 1..(Len(m) \div 2) |-> 16 * HexValue(m[2 * i - 1]) + HexValue(m[2 * i])]

\* The decimal text of a non-negative number.
RECURSIVE DecimalText(_)
DecimalText(n) ==
    IF n < 10 THEN <<48 + n>> ELSE DecimalText(n \div 10) \o <<48 + (n % 10)>>

\* JSON.stringify({ amount, investorKey })
InvestmentDataJson(amount, investorKey) ==
    <<123, 34, 97, 109, 111, 117, 110, 116, 34, 58>> \o DecimalText(amount)
    \o <<44, 34, 105, 110, 118, 101, 115, 116, 111, 114, 75, 101, 121, 34, 58>> \o JsonQuote(investorKey) \o <<125>>

\* new SymmetricKey(Hash.sha256(receiverBytes)).encrypt(text): a 32-byte random
\* nonce, the ciphertext (as long as the plaintext) and a 16-byte tag.  The cipher
\* is opaque; only the layout and the lengths are modelled.
EncryptNonceLen == 32
EncryptTagLen == 16
SymmetricEncrypt(keyText, plain, iv) ==
    Repeat(iv, EncryptNonceLen)
    \o [i \in 1..Len(plain) |-> (plain[i] + iv + Len(keyText) + i) % 256]
    \o Repeat((iv + Len(plain)) % 256, EncryptTagLen)

\* createInvestorToken(wallet, investmentData, receiverPubKey): the chunks handed to
\* new LockingScript(chunks).  No statement of the function throws or rejects.
createInvestorToken(investmentData, receiverPubKey, iv) ==
    LET encryptedData == SymmetricEncrypt(receiverPubKey,
                             Utf8Encode(InvestmentDataJson(investmentData.amount,
                                                           investmentData.investorKey)), iv)
        pubKeyBytes == HexToArray(receiverPubKey)
    IN [returned |-> TRUE, threw |-> FALSE,
        chunks |-> <<PushChunk(Len(encryptedData), encryptedData),
                     OpChunk(OP_DROP),
                     PushChunk(Len(pubKeyBytes), pubKeyBytes),
                     OpChunk(OP_CHECKSIG)>>]

\* Owner keys handed to the builder: 32, 33 and 34 bytes, first byte 02, 03 or 04.
BuilderKeyLengths == {32, 33, 34}
BuilderKeyPrefixes == {2, 3, 4}
BuilderKeys == {HexEncode(<<p>> \o Repeat(171, n - 1)) : p \in BuilderKeyPrefixes, n \in BuilderKeyLengths}
BuilderAmounts == {1, 60, 100, 50000}
BuilderNonces == {1, 200}

BldInit ==
    /\ bldIn \in [amount : BuilderAmounts, receiverPubKey : BuilderKeys, iv : BuilderNonces]
    /\ bldOut = [returned |-> FALSE, threw |-> FALSE, chunks |-> <<>>]
    /\ bldPc = "init"
    /\ TokIdle /\ AsmIdle /\ LedIdle /\ CallIdle

\* The callers pass the investor's identity key both as investmentData.investorKey
\* and as receiverPubKey.
BldBuild ==
    /\ bldPc = "init"
    /\ bldOut' = createInvestorToken([amount |-> bldIn.amount, investorKey |-> bldIn.receiverPubKey],
                                     bldIn.receiverPubKey, bldIn.iv)
    /\ bldPc' = "built"
    /\ UNCHANGED <<bldIn, tokVars, asmVars, ledVars, callVars>>

BldNext == BldBuild

SpecBuilder == BldInit /\ [][BldNext]_vars

\* The 33-byte / 0x02-0x03 rule for a compressed public key.
IsCompressedKey(bytes) == Len(bytes) = 33 /\ bytes[1] \in {2, 3}

\* C10: building the spendable token script with an owner key that is not exactly
\* 33 bytes, or is 33 bytes but does not start with 0x02 or 0x03, fails with an
\* invalid-key error and returns no script.
C10_OwnerKeyGate ==
    (bldPc = "built" /\ ~IsCompressedKey(HexToArray(bldIn.receiverPubKey)))
        => (bldOut.threw /\ ~bldOut.returned)

\* C11: the spendable-variant builder returns exactly four chunks, push(ciphertext),
\* OP_DROP, push(owner key), OP_CHECKSIG, and each push chunk's opcode is a valid
\* push opcode whose declared length is the length of its data.
C11_BuilderChunks ==
    bldPc = "built" =>
        /\ Len(bldOut.chunks) = 4
        /\ IsValidPush(bldOut.chunks[1])
        /\ bldOut.chunks[2] = OpChunk(OP_DROP)
        /\ IsValidPush(bldOut.chunks[3])
        /\ bldOut.chunks[3].data = HexToArray(bldIn.receiverPubKey)
        /\ bldOut.chunks[4] = OpChunk(OP_CHECKSIG)

(***************************************************************************)
(* The campaign ledger and its request handlers.                           *)
(*                                                                         *)
(* Three servers exist in the repository, each with its own handlers over  *)
(* the module-level `crowdfunding` object:                                 *)
(*   "express": server.ts with the payment middleware (getAddress.ts)      *)
(*   "api"    : the Next.js API routes, batch distribution (complete.ts    *)
(*              7-94), invest with persistence (part_007)                  *)
(*   "claim"  : the API routes with the per-investor claim (complete.ts    *)
(*              102-265)                                                   *)
(* A handler runs without interruption between two awaits; every action    *)
(* below is one such stretch.  Awaits between which the handler reads no   *)
(* shared state are folded into one step.  Wall-clock timestamps are not   *)
(* kept: no branch reads them.                                             *)
(***************************************************************************)
MaxReq == 3         \* requests served in one run

GoalExpress == 100000
GoalApi == 100
DefaultPrice == 1000

Req == 1..MaxReq
InvestorKeys == {"alice", "bob"}
PaymentSats == {0, 40, 100}       \* satoshis of output 0 of a payment transaction
BodyAmounts == {0, 100000}        \* req.body.amount of the express invest route (0: not given)

DefaultState(goal) ==
    [goal |-> goal, raised |-> 0, investors |-> <<>>, isComplete |-> FALSE, completionTxid |-> 0]

NoReq ==
    [kind |-> "none", key |-> "", hasFields |-> FALSE, sats |-> 0,
     price |-> 0, accepted |-> "none", idx |-> 0, outputs |-> <<>>, atStart |-> <<>>,
     stale |-> FALSE, tokenAmount |-> 0, response |-> ""]

LedInit ==
    /\ deployment \in {"express", "api", "claim"}
    /\ crowdfunding = DefaultState(IF deployment = "express" THEN GoalExpress ELSE GoalApi)
    /\ disk = [exists |-> FALSE, state |-> DefaultState(GoalApi)]
    /\ pc = [r \in Req |-> "idle"]
    /\ req = [r \in Req |-> NoReq]
    /\ txLog = <<>>
    /\ paid = [k \in InvestorKeys |-> 0]
    /\ TokIdle /\ AsmIdle /\ BldIdle /\ CallIdle

\* crowdfunding.investors.find(inv => inv.identityKey === key): its position, 0 if none.
FindInvestor(investors, key) ==
    LET hits == {i \in 1..Len(investors) : investors[i].identityKey = key}
    IN IF hits = {} THEN 0 ELSE CHOOSE i \in hits : \A j \in hits : i <= j

NewInvestor(key, amount) == [identityKey |-> key, amount |-> amount, redeemed |-> FALSE]

\* The find-or-create mutation with raised counted only for a new record.
RecordInvestment_RaisedOnNewOnly(cf, key, amount) ==
    LET i == FindInvestor(cf.investors, key)
    IN [cf EXCEPT !.investors = IF i > 0 THEN [@ EXCEPT ![i].amount = @ + amount]
                                ELSE Append(@, NewInvestor(key, amount)),
                  !.raised = IF i > 0 THEN @ ELSE @ + amount]

\* The find-or-create ledger mutation of the API invest handler.
RecordInvestment(cf, key, amount) ==
    LET i == FindInvestor(cf.investors, key)
    IN [cf EXCEPT !.investors = IF i > 0 THEN [@ EXCEPT ![i].amount = @ + amount]
                                ELSE Append(@, NewInvestor(key, amount)),
                  !.raised = @ + amount]

\* The ledger mutation of the express invest route: always a new record.
PushInvestment(cf, key, amount) ==
    [cf EXCEPT !.investors = Append(@, NewInvestor(key, amount)),
               !.raised = @ + amount]

\* saveCrowdfundingData(state): the file holds the state.
SavedFile(state) == [exists |-> TRUE, state |-> state]

\* loadCrowdfundingData(): the file's state, or the default state without a file.
LoadCrowdfundingData == IF disk.exists THEN disk.state ELSE DefaultState(GoalApi)

\* wallet.internalizeAction resolves with accepted = true, resolves with
\* accepted = false, or rejects.
InternalizeOutcomes == {"accepted", "rejected", "threw"}

\* The response is sent; of the request only what it was and how it ended remains.
Finish(r, response, fields) ==
    /\ pc' = [pc EXCEPT ![r] = "done"]
    /\ req' = [req EXCEPT ![r] = [NoReq EXCEPT !.kind = fields.kind,
                                               !.accepted = fields.accepted,
                                               !.response = response]]

\* Requests are numbered in the order they arrive.
Arrives(r) == pc[r] = "idle" /\ \A q \in 1..(r - 1) : pc[q] # "idle"

\* identity key and amount of every investor record, in ledger order
LedgerOf(cf) ==
    [i \in 1..Len(cf.investors) |->
        [identityKey |-> cf.investors[i].identityKey, amount |-> cf.investors[i].amount]]

(* ---- POST /api/invest (part_006 66-148, part_007, part_008, server.ts 218-290) ---- *)
InvestArrive(r) ==
    /\ deployment \in {"api", "claim"}
    /\ Arrives(r)
    /\ \E key \in InvestorKeys, hasFields \in BOOLEAN, sats \in PaymentSats :
          LET in == [NoReq EXCEPT !.kind = "invest", !.key = key, !.hasFields = hasFields,
                                  !.sats = sats]
          IN IF ~hasFields THEN Finish(r, "Missing required payment data", in)
             ELSE IF crowdfunding.isComplete THEN Finish(r, "Crowdfunding already complete", in)
             ELSE IF sats = 0 THEN Finish(r, "Invalid transaction amount", in)
             ELSE /\ pc' = [pc EXCEPT ![r] = "inv_internalize"]
                  /\ req' = [req EXCEPT ![r] = in]
    /\ UNCHANGED <<deployment, crowdfunding, disk, txLog, paid, tokVars, asmVars, bldVars, callVars>>

InvestInternalized(r) ==
    /\ pc[r] = "inv_internalize"
    /\ \E outcome \in InternalizeOutcomes :
          LET me == [req[r] EXCEPT !.accepted = outcome]
          IN IF outcome = "accepted"
             THEN /\ crowdfunding' = RecordInvestment(crowdfunding, me.key, me.sats)
                  /\ disk' = SavedFile(crowdfunding')
                  /\ paid' = [paid EXCEPT ![me.key] = @ + me.sats]
                  /\ Finish(r, "success", me)
             ELSE /\ Finish(r, IF outcome = "rejected" THEN "Payment not accepted"
                               ELSE "Payment failed", me)
                  /\ UNCHANGED <<crowdfunding, disk, paid>>
    /\ UNCHANGED <<deployment, txLog, tokVars, asmVars, bldVars, callVars>>

(* ---- POST /invest behind createPaymentMiddleware (getAddress.ts 38-106,      ---- *)
(* ---- server.ts 59-96)                                                        ---- *)
\* calculateRequestPrice: req.body.amount || 1000
RequestPrice(bodyAmount) == IF bodyAmount # 0 THEN bodyAmount ELSE DefaultPrice

MwArrive(r) ==
    /\ deployment = "express"
    /\ Arrives(r)
    /\ \E key \in InvestorKeys, bodyAmount \in BodyAmounts, hasHeader \in BOOLEAN,
          nonceValid \in BOOLEAN, sats \in PaymentSats :
          LET in == [NoReq EXCEPT !.kind = "invest_mw", !.key = key, !.hasFields = hasHeader,
                                  !.sats = sats,
                                  !.price = RequestPrice(bodyAmount)]
          IN IF ~hasHeader THEN Finish(r, "ERR_PAYMENT_REQUIRED", in)
             ELSE IF ~nonceValid THEN Finish(r, "ERR_INVALID_DERIVATION_PREFIX", in)
             ELSE /\ pc' = [pc EXCEPT ![r] = "mw_internalize"]
                  /\ req' = [req EXCEPT ![r] = in]
    /\ UNCHANGED <<deployment, crowdfunding, disk, txLog, paid, tokVars, asmVars, bldVars, callVars>>

\* The middleware stores `accepted` in req.payment and calls next(); the route
\* handler records req.payment.satoshisPaid.  A rejected internalizeAction promise
\* leaves the request without a response.
MwInternalized(r) ==
    /\ pc[r] = "mw_internalize"
    /\ \E outcome \in InternalizeOutcomes :
          LET me == [req[r] EXCEPT !.accepted = outcome]
          IN /\ paid' = IF outcome = "accepted" THEN [paid EXCEPT ![me.key] = @ + me.sats]
                        ELSE paid
             /\ IF outcome = "threw"
                THEN Finish(r, "no response", me) /\ UNCHANGED crowdfunding
                ELSE IF crowdfunding.isComplete
                THEN Finish(r, "Crowdfunding already complete", me) /\ UNCHANGED crowdfunding
                ELSE /\ crowdfunding' = PushInvestment(crowdfunding, me.key, me.price)
                     /\ Finish(r, "success", me)
    /\ UNCHANGED <<deployment, disk, txLog, tokVars, asmVars, bldVars, callVars>>

(* ---- POST /complete, batch distribution (complete.ts 7-94, part_005,         ---- *)
(* ---- part_006 1-64, server.ts 99-149 and 293-342)                            ---- *)
\* The goal guard without its test.
GoalNotReached_Never(cf) == FALSE

\* if (crowdfunding.raised < crowdfunding.goal)
GoalNotReached(cf) == cf.raised < cf.goal

CompleteArrive(r) ==
    /\ deployment \in {"express", "api"}
    /\ Arrives(r)
    /\ LET in == [NoReq EXCEPT !.kind = "complete", !.atStart = LedgerOf(crowdfunding)]
       IN IF crowdfunding.isComplete THEN Finish(r, "Already completed", in)
          ELSE IF GoalNotReached(crowdfunding) THEN Finish(r, "Goal not reached", in)
          ELSE /\ pc' = [pc EXCEPT ![r] = "cmp_build"]
               /\ req' = [req EXCEPT ![r] = in]
    /\ UNCHANGED <<deployment, crowdfunding, disk, txLog, paid, tokVars, asmVars, bldVars, callVars>>

\* One turn of `for (const investor of crowdfunding.investors)`: the iterator reads
\* the live array, the token is built from the record as it is now, and the handler
\* awaits createInvestorToken.  After the last record the handler calls createAction.
CompleteBuildOne(r) ==
    /\ pc[r] = "cmp_build"
    /\ IF req[r].idx < Len(crowdfunding.investors)
       THEN /\ req' = [req EXCEPT ![r].idx = @ + 1,
                                  ![r].outputs = Append(@, LedgerOf(crowdfunding)[req[r].idx + 1])]
            /\ pc' = pc
       ELSE IF Len(req[r].outputs) = 0 /\ deployment = "api"
       THEN Finish(r, "No outputs to create", req[r])
       ELSE /\ pc' = [pc EXCEPT ![r] = "cmp_create"]
            /\ req' = req
    /\ UNCHANGED <<deployment, crowdfunding, disk, txLog, paid, tokVars, asmVars, bldVars, callVars>>

DistributionTx(r) ==
    [kind |-> "distribution", by |-> r, outputs |-> req[r].outputs,
     atStart |-> req[r].atStart, ledger |-> LedgerOf(crowdfunding)]

\* wallet.createAction settles.  The API handler races it against a 30 s timer.
CreateOutcomes == IF deployment = "api" THEN {"ok", "fail", "timeout"} ELSE {"ok", "fail"}

CompleteCreated(r) ==
    /\ pc[r] = "cmp_create"
    /\ \E outcome \in CreateOutcomes :
          IF outcome = "ok"
          THEN /\ txLog' = Append(txLog, DistributionTx(r))
               /\ crowdfunding' = [crowdfunding EXCEPT !.isComplete = TRUE]
               /\ disk' = IF deployment = "api" THEN SavedFile(crowdfunding') ELSE disk
               /\ Finish(r, "success", req[r])
          ELSE IF outcome = "fail"
          THEN /\ Finish(r, IF deployment = "api" THEN "Failed to create transaction"
                            ELSE "no response", req[r])
               /\ UNCHANGED <<crowdfunding, disk, txLog>>
          ELSE /\ pc' = [pc EXCEPT ![r] = "cmp_timedout"]
               /\ req' = [req EXCEPT ![r].response = "Transaction creation timeout"]
               /\ UNCHANGED <<crowdfunding, disk, txLog>>
    /\ UNCHANGED <<deployment, paid, tokVars, asmVars, bldVars, callVars>>

\* The createAction call that lost the race settles later; nobody awaits it.
CompleteLate(r) ==
    /\ pc[r] = "cmp_timedout"
    /\ \E created \in BOOLEAN :
          txLog' = IF created THEN Append(txLog, DistributionTx(r)) ELSE txLog
    /\ Finish(r, req[r].response, req[r])
    /\ UNCHANGED <<deployment, crowdfunding, disk, paid, tokVars, asmVars, bldVars, callVars>>

(* ---- POST /api/complete, per-investor claim (complete.ts 102-265)            ---- *)
ClaimArrive(r) ==
    /\ deployment = "claim"
    /\ Arrives(r)
    /\ \E key \in InvestorKeys, hasFields \in BOOLEAN :
          req' = [req EXCEPT ![r] = [NoReq EXCEPT !.kind = "claim", !.key = key,
                                                  !.hasFields = hasFields]]
    /\ pc' = [pc EXCEPT ![r] = "clm_load"]
    /\ UNCHANGED <<deployment, crowdfunding, disk, txLog, paid, tokVars, asmVars, bldVars, callVars>>

\* After `await wallet.getPublicKey`: setCrowdfundingState(loadCrowdfundingData(..))
\* makes the loaded state the module state, so a record another request found in the
\* state loaded before is no longer a record of the ledger; then the checks.
ClaimLoad(r) ==
    /\ pc[r] = "clm_load"
    /\ LET loaded == LoadCrowdfundingData
           i == FindInvestor(loaded.investors, req[r].key)
           response == IF ~req[r].hasFields THEN "Missing or invalid parameter"
                       ELSE IF i = 0 THEN "Investor not found"
                       ELSE IF loaded.investors[i].redeemed THEN "Investor already redeemed"
                       ELSE IF loaded.raised < loaded.goal THEN "Goal not reached"
                       ELSE ""
       IN /\ crowdfunding' = loaded
          /\ req' = [q \in Req |->
                        IF q = r
                        THEN IF response = ""
                             THEN [req[r] EXCEPT !.idx = i, !.tokenAmount = loaded.investors[i].amount]
                             ELSE [req[r] EXCEPT !.response = response]
                        ELSE IF pc[q] = "clm_create" THEN [req[q] EXCEPT !.stale = TRUE]
                        ELSE req[q]]
          /\ pc' = [pc EXCEPT ![r] = IF response = "" THEN "clm_create" ELSE "done"]
    /\ UNCHANGED <<deployment, disk, txLog, paid, tokVars, asmVars, bldVars, callVars>>

\* encrypt, lock and createAction have settled: the token transaction exists; then
\* investor.redeemed = true on the record found at load time.
ClaimCreated(r) ==
    /\ pc[r] = "clm_create"
    /\ \E outcome \in {"ok", "fail"} :
          IF outcome = "ok"
          THEN /\ txLog' = Append(txLog, [kind |-> "token", by |-> r,
                                          outputs |-> <<[identityKey |-> req[r].key,
                                                         amount |-> req[r].tokenAmount]>>,
                                          atStart |-> <<>>, ledger |-> LedgerOf(crowdfunding)])
               /\ crowdfunding' = IF req[r].stale THEN crowdfunding
                                  ELSE [crowdfunding EXCEPT !.investors[req[r].idx].redeemed = TRUE]
               /\ pc' = [pc EXCEPT ![r] = "clm_save"]
               /\ req' = req
          ELSE /\ Finish(r, "Failed to complete", req[r])
               /\ UNCHANGED <<crowdfunding, txLog>>
    /\ UNCHANGED <<deployment, disk, paid, tokVars, asmVars, bldVars, callVars>>

\* After `await wallet.getPublicKey`: save, then mark the campaign complete (and save
\* again) when every record is redeemed.
ClaimSave(r) ==
    /\ pc[r] = "clm_save"
    /\ crowdfunding' = IF \A i \in 1..Len(crowdfunding.investors) : crowdfunding.investors[i].redeemed
                       THEN [crowdfunding EXCEPT !.isComplete = TRUE, !.completionTxid = Len(txLog)]
                       ELSE crowdfunding
    /\ disk' = SavedFile(crowdfunding')
    /\ Finish(r, "success", req[r])
    /\ UNCHANGED <<deployment, txLog, paid, tokVars, asmVars, bldVars, callVars>>

LedNext ==
    \E r \in Req :
        \/ InvestArrive(r) \/ InvestInternalized(r)
        \/ MwArrive(r) \/ MwInternalized(r)
        \/ CompleteArrive(r) \/ CompleteBuildOne(r) \/ CompleteCreated(r) \/ CompleteLate(r)
        \/ ClaimArrive(r) \/ ClaimLoad(r) \/ ClaimCreated(r) \/ ClaimSave(r)

SpecLedger == LedInit /\ [][LedNext]_vars

(* ---- properties of the ledger ---- *)
Ledger == <<LedgerOf(crowdfunding), crowdfunding.raised>>

IsInvest(q) == q.kind \in {"invest", "invest_mw"}

\* C2: in every invest path the ledger (investors and raised) changes only if
\* internalizeAction for that request returned accepted = true: a step of an invest
\* request whose payment is not accepted (refused, failed, zero amount, missing
\* fields) leaves investors and raised as they were.
C2_LedgerOnlyOnAccepted ==
    [][\A r \in Req :
          (pc'[r] # pc[r] /\ IsInvest(req'[r]) /\ req'[r].accepted # "accepted")
              => Ledger' = Ledger]_vars

TokenTxsFor(key) ==
    {i \in 1..Len(txLog) : txLog[i].kind = "token" /\ txLog[i].outputs[1].identityKey = key}

\* C3: under any interleaving of claim requests, at most one token-creation
\* transaction is created for each investor.
C3_AtMostOneTokenTx ==
    \A key \in InvestorKeys : Cardinality(TokenTxsFor(key)) <= 1

\* C4: for every batch distribution, no investor record was added and no amount
\* changed between the start of building the outputs and the creation of the
\* transaction, and the token outputs equal the ledger as it stood at creation.
C4_DistributionFromSnapshot ==
    \A i \in 1..Len(txLog) :
        txLog[i].kind = "distribution"
            => txLog[i].atStart = txLog[i].ledger /\ txLog[i].outputs = txLog[i].ledger

\* C5: the ledger holds at most one investor record per identity key, and the
\* record's amount is the sum of the accepted payments from that key.
C5_OneRecordPerKey ==
    LET investors == crowdfunding.investors
    IN /\ \A i, j \in 1..Len(investors) :
              investors[i].identityKey = investors[j].identityKey => i = j
       /\ \A i \in 1..Len(investors) :
              investors[i].amount = paid[investors[i].identityKey]

BatchScheme == deployment \in {"express", "api"}

SuccessfulDistributions ==
    {i \in 1..Len(txLog) :
        txLog[i].kind = "distribution" /\ req[txLog[i].by].response = "success"}

\* C22: a successful batch completion creates one transaction that has exactly one
\* token output per investor record, in ledger order, the i-th output built from the
\* i-th investor's recorded amount and locked to the i-th investor's identity key;
\* the reported investorCount equals the number of token outputs.
C22_OneOutputPerInvestor ==
    \A i \in SuccessfulDistributions :
        /\ Len(txLog[i].ledger) = Len(txLog[i].outputs)
        /\ \A k \in 1..Len(txLog[i].outputs) :
               /\ k <= Len(txLog[i].ledger)
               /\ txLog[i].outputs[k].identityKey = txLog[i].ledger[k].identityKey
               /\ txLog[i].outputs[k].amount = txLog[i].ledger[k].amount

\* The amount the ledger holds for a key: the sum over its records.
RECURSIVE AmountOf(_, _)
AmountOf(investors, key) ==
    IF investors = <<>> THEN 0
    ELSE (IF Head(investors).identityKey = key THEN Head(investors).amount ELSE 0)
         + AmountOf(Tail(investors), key)

\* C24: the amount recorded for an investment (added to the investor's record and
\* to raised) equals the satoshi value of output 0 of the payment transaction that
\* the wallet internalized for that request, in every invest path including the one
\* behind the payment middleware.
C24_RecordedIsPaid ==
    [][\A r \in Req :
          (pc[r] \in {"inv_internalize", "mw_internalize"} /\ pc'[r] = "done"
              /\ Ledger' # Ledger)
              => /\ crowdfunding'.raised = crowdfunding.raised + req[r].sats
                 /\ AmountOf(crowdfunding'.investors, req[r].key)
                        = AmountOf(crowdfunding.investors, req[r].key) + req[r].sats]_vars

RECURSIVE SumAmounts(_)
SumAmounts(investors) ==
    IF investors = <<>> THEN 0 ELSE Head(investors).amount + SumAmounts(Tail(investors))

\* C25: in every reachable state of the campaign ledger, after any sequence and
\* interleaving of invest, complete and claim requests, raised equals the sum of the
\* amounts of all investor records.
C25_RaisedIsSum == crowdfunding.raised = SumAmounts(crowdfunding.investors)

\* The ledger holds two records after a successful request and raised is the sum of
\* their amounts.
C25_Witness ==
    /\ Len(crowdfunding.investors) = 2
    /\ crowdfunding.raised > crowdfunding.investors[1].amount
    /\ crowdfunding.raised = crowdfunding.investors[1].amount + crowdfunding.investors[2].amount
    /\ \E r \in Req : pc[r] = "done" /\ req[r].response = "success"

\* The transactions of the log that distribute tokens to the whole ledger.
Distributions == {i \in 1..Len(txLog) : txLog[i].kind = "distribution"}

\* C26: under any interleaving of concurrent batch complete requests, at most one
\* token-distribution transaction is created for a campaign.
C26_AtMostOneDistribution == Cardinality(Distributions) <= 1

\* A request that has arrived is served to its end: every await of a handler settles
\* (createAction that lost the race against the timer included).  Requests need not
\* arrive.
LedProgress ==
    \E r \in Req :
        \/ InvestInternalized(r) \/ MwInternalized(r)
        \/ CompleteBuildOne(r) \/ CompleteCreated(r) \/ CompleteLate(r)
        \/ ClaimLoad(r) \/ ClaimCreated(r) \/ ClaimSave(r)

SpecLedgerLive == LedInit /\ [][LedNext]_vars /\ WF_vars(LedProgress)

\* isComplete is set only when a distribution transaction exists.
MarkedOnlyIfDistributed ==
    (BatchScheme /\ crowdfunding.isComplete) => Distributions # {}

\* A complete request that ends without success leaves the campaign state alone.
FailedCompleteChangesNothing ==
    \A r \in Req :
        (pc[r] \in {"cmp_build", "cmp_create", "cmp_timedout"} /\ pc'[r] = "done"
            /\ req'[r].response # "success")
        => UNCHANGED crowdfunding

\* C27: in the batch complete handler the campaign is marked complete if and only
\* if the distribution transaction was created: a failing createAction leaves
\* isComplete false and the ledger unchanged, and whenever createAction succeeds,
\* also after the 30-second timer has rejected the request, the campaign is
\* eventually marked complete.
C27_CompleteIffDistributed ==
    /\ []MarkedOnlyIfDistributed
    /\ [][FailedCompleteChangesNothing]_vars
    /\ (BatchScheme /\ Distributions # {}) ~> crowdfunding.isComplete

\* Every investor record has received its token.
AllRedeemed(cf) == \A i \in 1..Len(cf.investors) : cf.investors[i].redeemed

\* C28: once the campaign is marked complete no investment is recorded: under any
\* interleaving of invest and complete or claim requests, investors and raised do
\* not change after isComplete is true, and in the per-investor scheme isComplete
\* implies that every investor record has redeemed = true.
C28_ClosedWhenComplete ==
    /\ [][crowdfunding.isComplete => Ledger' = Ledger]_vars
    /\ []((deployment = "claim" /\ crowdfunding.isComplete) => AllRedeemed(crowdfunding))

\* C29: in the per-investor claim scheme, after an investor's token has been created
\* (redeemed = true) that investor's recorded amount never changes, under any
\* sequence of later invest and claim requests.
C29_RedeemedAmountFixed ==
    [][\A i \in 1..Len(crowdfunding.investors) :
          (deployment = "claim" /\ crowdfunding.investors[i].redeemed)
          => /\ i <= Len(crowdfunding'.investors)
             /\ crowdfunding'.investors[i].identityKey = crowdfunding.investors[i].identityKey
             /\ crowdfunding'.investors[i].amount = crowdfunding.investors[i].amount]_vars

(***************************************************************************)
(* Single calls of the program's pure functions.  A call either returns a  *)
(* value or throws; every function below has its own specification whose   *)
(* initial states are its inputs.                                          *)
(***************************************************************************)
Returned(v) == [threw |-> FALSE, value |-> v]
Threw == [threw |-> TRUE, value |-> <<>>]

OtherPartsIdle == TokIdle /\ AsmIdle /\ BldIdle /\ LedIdle

(* ---- bufferToBigInt (pushdrop-token.ts 252-258) ---- *)
MaxAmountBytes == 9     \* length of the longest amount buffer
AmountBytes == {0, 1, 255}

AmtInit ==
    /\ callFn = "bufferToBigInt"
    /\ callArgs \in SeqsUpTo(AmountBytes, MaxAmountBytes)
    /\ callResult = <<>>
    /\ callPc = "init"
    /\ OtherPartsIdle

\* No statement of bufferToBigInt throws: Buffer.copy copies what fits.
AmtCall ==
    /\ callFn = "bufferToBigInt"
    /\ callPc = "init"
    /\ callResult' = Returned(bufferToBigInt(callArgs))
    /\ callPc' = "returned"
    /\ UNCHANGED <<callFn, callArgs, tokVars, asmVars, bldVars, ledVars>>

AmtNext == AmtCall

SpecAmount == AmtInit /\ [][AmtNext]_vars

\* buffer right-padded with zero bytes to 8 bytes
ZeroPadded(buffer) == buffer \o Repeat(0, 8 - Len(buffer))

\* C13: bufferToBigInt right-pads an input shorter than 8 bytes with zero bytes
\* before decoding it as a little-endian signed 64-bit integer, and reports a
\* failure for an input longer than 8 bytes instead of returning a value.
C13_AmountDecoding ==
    callPc = "returned" =>
        IF Len(callArgs) <= 8
        THEN callResult = Returned(ReadBigInt64LE(ZeroPadded(callArgs)))
        ELSE callResult.threw

(* ---- the parsers called on arbitrary input (pushdrop-token.ts 190-238,      ---- *)
(* ---- findPushDropTokens.ts 55-94)                                           ---- *)
MaxParseChunks == 8     \* chunks of the longest script handed to parsePushDropToken

\* try { body } catch (error) { return onError }, without the catch.
TryCatch_Rethrow(outcome, onError) == outcome

\* try { body } catch (error) { return onError }
TryCatch(outcome, onError) == IF outcome.threw THEN Returned(onError) ELSE outcome

\* The statements of parsePushDropToken's try block that throw: PublicKey.fromString
\* on bytes that are no point encoding, JSON.parse on text that is no JSON.
ParseBodyThrows(chunks) ==
    /\ Len(chunks) >= 5
    /\ chunks[1].op = OP_FALSE
    /\ chunks[2].op = OP_RETURN
    /\ Utf8Decode(DataOrEmpty(chunks, 2)) = CROWDFUND
    /\ \/ ~IsPointEncoding(DataOrEmpty(chunks, 4))
       \/ HasData(chunks, 7) /\ ~JsonParse(Utf8Decode(chunks[8].data)).ok

ParseTokenBody(chunks, poolWord) ==
    IF ParseBodyThrows(chunks) THEN Threw ELSE Returned(parsePushDropToken(chunks, poolWord))

\* parsePushDropToken as its caller sees it.
parsePushDropTokenCall(chunks, poolWord) == TryCatch(ParseTokenBody(chunks, poolWord), NullToken)

InvalidAsm ==
    [isValid |-> FALSE, hasPublicKey |-> FALSE, publicKey |-> <<>>,
     hasDataFields |-> FALSE, dataFields |-> <<>>]

\* decodePushDropScript as its caller sees it; for a string no statement of its try
\* block throws.
decodePushDropScriptCall(scriptAsm) ==
    TryCatch(Returned(decodePushDropScript(scriptAsm)), InvalidAsm)

\* What a script handed to the parser may hold at (1-based) position i: the chunk a
\* token has there, and malformed ones.
ChunkChoices(i) ==
    CASE i = 1 -> {OpChunk(OP_FALSE), OpChunk(OP_DUP)}
      [] i = 2 -> {OpChunk(OP_RETURN), OpChunk(OP_HASH160)}
      [] i = 3 -> {WriteBin(CROWDFUND), WriteBin(<<88>>), OpChunk(OP_DROP)}
      [] i = 4 -> {WriteBin(bigIntToBuffer(BigOfNat(50000))), WriteBin(<<>>), WriteBin(Repeat(1, 9))}
      [] i = 5 -> {WriteBin(KeyA), WriteBin(Repeat(2, 32)), OpChunk(OP_CHECKSIG)}
      [] i = 6 -> {WriteBin(LEBytes(Ts2023, 4)), OpChunk(OP_DROP)}
      [] i = 7 -> {WriteBin(<<99, 49>>), OpChunk(OP_DROP)}
      [] i = 8 -> {WriteBin(<<123, 125>>), WriteBin(<<123, 34, 107, 34, 58, 34, 118, 34, 125>>),
                   WriteBin(<<123>>), WriteBin(<<>>)}
      [] OTHER -> {OpChunk(OP_DROP)}

\* The scripts of exactly n chunks, and of up to MaxParseChunks chunks.
RECURSIVE ScriptsOfLen(_)
ScriptsOfLen(n) ==
    IF n = 0 THEN {<<>>}
    ELSE {Append(s, c) : s \in ScriptsOfLen(n - 1), c \in ChunkChoices(n)}

ParserScripts == UNION {ScriptsOfLen(n) : n \in 0..MaxParseChunks}

PrsInit ==
    /\ \/ callFn = "parsePushDropToken" /\ callArgs \in ParserScripts
       \/ callFn = "decodePushDropScript" /\ callArgs \in AsmInputs
    /\ callResult = <<>>
    /\ callPc = "init"
    /\ OtherPartsIdle

PrsParseToken ==
    /\ callFn = "parsePushDropToken"
    /\ callPc = "init"
    /\ \E poolWord \in PoolWords : callResult' = parsePushDropTokenCall(callArgs, poolWord)
    /\ callPc' = "returned"
    /\ UNCHANGED <<callFn, callArgs, tokVars, asmVars, bldVars, ledVars>>

PrsDecodeAsm ==
    /\ callFn = "decodePushDropScript"
    /\ callPc = "init"
    /\ callResult' = decodePushDropScriptCall(callArgs)
    /\ callPc' = "returned"
    /\ UNCHANGED <<callFn, callArgs, tokVars, asmVars, bldVars, ledVars>>

PrsNext == PrsParseToken \/ PrsDecodeAsm

SpecParser == PrsInit /\ [][PrsNext]_vars

\* C14: for every input the parsers return a value, a parsed token or a failure
\* value (null, isValid = false), and no exception escapes to the caller.
C14_ParsersNeverThrow ==
    callPc = "returned" =>
        /\ ~callResult.threw
        /\ callFn = "parsePushDropToken" /\ ParseBodyThrows(callArgs)
               => callResult.value = NullToken
        /\ callFn = "decodePushDropScript" => callResult.value.isValid \in BOOLEAN

\* A script whose key chunk is no point encoding has been parsed: the exception of
\* PublicKey.fromString was caught and null returned.
C14_Witness ==
    /\ callFn = "parsePushDropToken"
    /\ callPc = "returned"
    /\ ParseBodyThrows(callArgs)
    /\ callResult = Returned(NullToken)

(***************************************************************************)
(* The chain scans: the tokens API (pages/api/tokens.ts), the my-tokens    *)
(* API (part_010) and the token viewer (pages/tokens.tsx).  A scan reads   *)
(* no shared state, so a request is one call.                              *)
(***************************************************************************)
MaxScan == 2        \* outputs of one scan

\* str.includes(sub)
Includes(str, sub) ==
    \E i \in 1..(Len(str) - Len(sub) + 1) : SubSeq(str, i, i + Len(sub) - 1) = sub

\* str.toLowerCase(), for the characters of a hex key
LowerChar(c) ==
    CASE c = "A" -> "a" [] c = "B" -> "b" [] c = "C" -> "c"
      [] c = "D" -> "d" [] c = "E" -> "e" [] c = "F" -> "f" [] OTHER -> c
ToLowerCase(str) == [i \in 1..Len(str) |-> LowerChar(str[i])]

\* str.trim()
RECURSIVE TrimStart(_)
TrimStart(str) == IF str # <<>> /\ Head(str) = " " THEN TrimStart(Tail(str)) ELSE str
RECURSIVE TrimEnd(_)
TrimEnd(str) ==
    IF str # <<>> /\ str[Len(str)] = " " THEN TrimEnd(SubSeq(str, 1, Len(str) - 1)) ELSE str
Trim(str) == TrimEnd(TrimStart(str))

SmallValue == 100       \* satoshis <= 100
LongScriptHex == 100    \* scriptHex.length > 100

\* tokens.ts: isPushDrop = utxo.value <= 100 || scriptHex.length > 100
TokensIsPushDrop(out) == out.satoshis <= SmallValue \/ out.hexLen > LongScriptHex

\* my-tokens: hasDropOps && hasCheckSig && (satoshis <= 100 || isNonStandard)
MyTokensHasDropOps(asm) == Includes(asm, ASM_OP_DROP) \/ Includes(asm, ASM_OP_2DROP)
MyTokensHasCheckSig(asm) == Includes(asm, ASM_OP_CHECKSIG)
MyTokensIsNonStandard(type) == type = "nonstandard" \/ type = "unknown"
MyTokensIsPushDrop(out) ==
    /\ MyTokensHasDropOps(out.asm)
    /\ MyTokensHasCheckSig(out.asm)
    /\ (out.satoshis <= SmallValue \/ MyTokensIsNonStandard(out.type))

\* The loop over parts: extractedPubKey is the part before the last OP_CHECKSIG that
\* is not the first part; undefined when there is none.
ExtractPubKey(parts) ==
    LET js == {j \in 2..Len(parts) : parts[j] = ASM_OP_CHECKSIG}
    IN IF js = {} THEN Absent
       ELSE Some(parts[(CHOOSE j \in js : \A k \in js : k <= j) - 1])

\* isMyToken: normalizedExtractedKey === normalizedIdentityKey
IsMyToken(asm, identityKey) ==
    LET extracted == ExtractPubKey(Split(asm))
        normalizedIdentityKey == Trim(ToLowerCase(identityKey))
        normalizedExtractedKey == IF TruthyString(extracted)
                                  THEN Trim(ToLowerCase(extracted.value)) ELSE <<>>
    IN normalizedExtractedKey = normalizedIdentityKey

\* The entries pushed to pushDropTokens for the outputs from position i on.
RECURSIVE MyTokensLoop(_, _, _)
MyTokensLoop(vout, i, identityKey) ==
    IF i > Len(vout) THEN <<>>
    ELSE (IF MyTokensIsPushDrop(vout[i])
          THEN <<[vout |-> i, publicKey |-> ExtractPubKey(Split(vout[i].asm)),
                  isPushDrop |-> IsMyToken(vout[i].asm, identityKey)]>>
          ELSE <<>>)
         \o MyTokensLoop(vout, i + 1, identityKey)

IsMarked(t) == t.isPushDrop

\* The my-tokens handler: args = [identityKey, hasTxid, fetch, vout].
MyTokensHandler(args) ==
    IF args.identityKey = <<>> THEN [status |-> 400, body |-> <<>>]
    ELSE IF ~args.hasTxid THEN [status |-> 400, body |-> <<>>]
    ELSE IF args.fetch # "ok" THEN [status |-> 500, body |-> <<>>]
    ELSE LET pushDropTokens == MyTokensLoop(args.vout, 1, args.identityKey)
             myTokens == SelectSeq(pushDropTokens, IsMarked)
         IN [status |-> 200,
             body |-> [tokenCount |-> Len(myTokens),
                       allTokenCount |-> Len(pushDropTokens),
                       tokens |-> IF Len(myTokens) > 0 THEN myTokens ELSE pushDropTokens]]

\* isStandardP2PKH ? 'P2PKH' : 'Unknown'
StartsWith(str, pre) == Len(str) >= Len(pre) /\ SubSeq(str, 1, Len(pre)) = pre
EndsWith(str, suf) ==
    Len(str) >= Len(suf) /\ SubSeq(str, Len(str) - Len(suf) + 1, Len(str)) = suf
TokensType(asm) ==
    IF /\ StartsWith(asm, JoinWithSpace(<<ASM_OP_DUP, ASM_OP_HASH160>>))
       /\ EndsWith(asm, JoinWithSpace(<<ASM_OP_EQUALVERIFY, ASM_OP_CHECKSIG>>))
    THEN "P2PKH" ELSE "Unknown"

\* The per-item try { .. } catch (err) { console.error(..) } of a scan loop, without
\* the catch.
CatchPerItem_Abort(outcome) == outcome

\* The per-item try { .. } catch (err) { console.error(..) } of a scan loop: an item
\* that throws adds nothing.
CatchPerItem(outcome) == TryCatch(outcome, <<>>)

\* One turn of the per-UTXO loop of the tokens API: what it adds to allOutputs.  A
\* fetch that rejects and a transaction without the output throw; a response that
\* is not ok adds nothing.
TokensItem(utxo, i) ==
    IF utxo.fetch = "rejects" \/ utxo.fetch = "no_output" THEN Threw
    ELSE IF utxo.fetch # "ok" THEN Returned(<<>>)
    ELSE Returned(<<[utxo |-> i, isPushDrop |-> TokensIsPushDrop(utxo),
                     type |-> TokensType(utxo.asm)]>>)

\* The per-UTXO loop from position i on.
RECURSIVE TokensLoop(_, _)
TokensLoop(utxos, i) ==
    IF i > Len(utxos) THEN Returned(<<>>)
    ELSE LET item == CatchPerItem(TokensItem(utxos[i], i))
             rest == TokensLoop(utxos, i + 1)
         IN IF item.threw \/ rest.threw THEN Threw
            ELSE Returned(item.value \o rest.value)

\* The tokens handler: args = [hasKey, keyValid, unspent, history, historyLen, utxos].
TokensHandler(args) ==
    IF ~args.hasKey THEN [status |-> 400, body |-> <<>>]
    ELSE IF ~args.keyValid THEN [status |-> 500, body |-> <<>>]      \* fromString throws
    ELSE IF args.unspent = "rejects" \/ args.history = "rejects"
         THEN [status |-> 500, body |-> <<>>]                       \* Promise.all rejects
    ELSE IF args.unspent # "ok" THEN [status |-> 500, body |-> <<>>]
    ELSE LET loop == TokensLoop(args.utxos, 1)
             allOutputs == loop.value
         IN IF loop.threw THEN [status |-> 500, body |-> <<>>]
            ELSE [status |-> 200,
                  body |-> [tokenCount |-> Len(SelectSeq(allOutputs, IsMarked)),
                            totalUtxos |-> Len(args.utxos),
                            totalTransactions |-> IF args.history = "ok" THEN args.historyLen
                                                  ELSE 0,
                            tokens |-> allOutputs]]

\* One turn of the per-output loop of the viewer's loadTokens: what it adds to
\* tokens.  LockingScript.fromHex / PushDrop.decode throw for a script that is no
\* PushDrop script; a failed wallet.decrypt is caught on its own.
ViewerItem(o, i, completionTxid) ==
    IF ~o.hasScript THEN Returned(<<>>)
    ELSE IF ~o.decodes THEN Threw
    ELSE LET decryptedData == IF ~o.hasFields THEN ""
                              ELSE TryCatch(IF o.decrypts THEN Returned("plaintext") ELSE Threw,
                                            "(encrypted)").value
         IN IF completionTxid # "" /\ o.txid # completionTxid THEN Returned(<<>>)
            ELSE Returned(<<[output |-> i, decryptedData |-> decryptedData]>>)

\* The per-output loop from position i on.
RECURSIVE ViewerLoop(_, _, _)
ViewerLoop(outputs, i, completionTxid) ==
    IF i > Len(outputs) THEN Returned(<<>>)
    ELSE LET item == CatchPerItem(ViewerItem(outputs[i], i, completionTxid))
             rest == ViewerLoop(outputs, i + 1, completionTxid)
         IN IF item.threw \/ rest.threw THEN Threw
            ELSE Returned(item.value \o rest.value)

\* loadTokens: args = [connected, list, completionTxid, outputs].
LoadTokens(args) ==
    IF ~args.connected THEN [error |-> "Wallet not connected", hasData |-> FALSE, tokens |-> <<>>]
    ELSE LET loop == IF args.list = "ok" THEN ViewerLoop(args.outputs, 1, args.completionTxid)
                     ELSE Threw
         IN IF loop.threw
            THEN [error |-> "Error loading tokens", hasData |-> FALSE, tokens |-> <<>>]
            ELSE [error |-> IF Len(loop.value) = 0 THEN "No tokens found in your wallet" ELSE "",
                  hasData |-> TRUE, tokens |-> loop.value]

(* ---- inputs of the scans ---- *)
AsmKey1Upper == <<" ", "0", "2", "A", "A">>     \* " 02AA"
BlankKey == <<" ">>

ScanPushDropAsm == PushDropAsm(<<AsmData1>>, AsmKey1)
ScanP2PKHAsm == P2PKHAsm(AsmData2)
Scan2DropAsm == JoinWithSpace(<<AsmData1, AsmData2, ASM_OP_2DROP, AsmKey1, ASM_OP_CHECKSIG>>)
ScanNoKeyAsm == JoinWithSpace(<<ASM_OP_CHECKSIG, ASM_OP_DROP>>)

\* An output of the completion transaction as the indexer reports it; satoshis is
\* Math.round(output.value * 100000000).
MyTokensOutputs ==
    [satoshis : {SmallValue, SmallValue + 1}, type : {"nonstandard", "pubkeyhash"},
     hexLen : {50, 120}, asm : {ScanPushDropAsm, ScanP2PKHAsm, Scan2DropAsm, ScanNoKeyAsm}]

MyTokensArgs ==
    [identityKey : {AsmKey1, AsmKey1Upper, AsmKey2, BlankKey}, hasTxid : {TRUE}, fetch : {"ok"},
     vout : SeqsUpTo(MyTokensOutputs, MaxScan)]
    \cup [identityKey : {<<>>, AsmKey1}, hasTxid : BOOLEAN, fetch : {"not_ok", "rejects"},
          vout : {<<>>}]

\* An unspent output of the address with the outcome of its transaction fetch.
TokensUtxos ==
    [satoshis : {SmallValue, SmallValue + 1}, hexLen : {50, 120},
     asm : {ScanPushDropAsm, ScanP2PKHAsm}, fetch : {"ok"}]
    \cup [satoshis : {1}, hexLen : {50}, asm : {ScanPushDropAsm},
          fetch : {"not_ok", "rejects", "no_output"}]

TokensArgs ==
    [hasKey : {TRUE}, keyValid : {TRUE}, unspent : {"ok"}, history : {"ok", "not_ok"},
     historyLen : {3}, utxos : SeqsUpTo(TokensUtxos, MaxScan)]
    \cup [hasKey : BOOLEAN, keyValid : BOOLEAN, unspent : {"ok", "not_ok", "rejects"},
          history : {"ok", "rejects"}, historyLen : {3}, utxos : {<<>>}]

\* An output of the wallet's crowdfunding basket.
ViewerOutputs ==
    [hasScript : {TRUE}, decodes : {TRUE}, hasFields : BOOLEAN, decrypts : BOOLEAN,
     txid : {"t1", "t2"}]
    \cup [hasScript : {FALSE}, decodes : {FALSE}, hasFields : {FALSE}, decrypts : {FALSE},
          txid : {"t1"}]
    \cup [hasScript : {TRUE}, decodes : {FALSE}, hasFields : {FALSE}, decrypts : {FALSE},
          txid : {"t1"}]

ViewerArgs ==
    [connected : {TRUE}, list : {"ok"}, completionTxid : {"", "t1"},
     outputs : SeqsUpTo(ViewerOutputs, MaxScan)]
    \cup [connected : BOOLEAN, list : {"rejects"}, completionTxid : {""}, outputs : {<<>>}]

ScanInit ==
    /\ \/ callFn = "tokens" /\ callArgs \in TokensArgs
       \/ callFn = "myTokens" /\ callArgs \in MyTokensArgs
       \/ callFn = "loadTokens" /\ callArgs \in ViewerArgs
    /\ callResult = <<>>
    /\ callPc = "init"
    /\ OtherPartsIdle

ScanTokens ==
    /\ callFn = "tokens"
    /\ callPc = "init"
    /\ callResult' = TokensHandler(callArgs)
    /\ callPc' = "returned"
    /\ UNCHANGED <<callFn, callArgs, tokVars, asmVars, bldVars, ledVars>>

ScanMyTokens ==
    /\ callFn = "myTokens"
    /\ callPc = "init"
    /\ callResult' = MyTokensHandler(callArgs)
    /\ callPc' = "returned"
    /\ UNCHANGED <<callFn, callArgs, tokVars, asmVars, bldVars, ledVars>>

ScanLoadTokens ==
    /\ callFn = "loadTokens"
    /\ callPc = "init"
    /\ callResult' = LoadTokens(callArgs)
    /\ callPc' = "returned"
    /\ UNCHANGED <<callFn, callArgs, tokVars, asmVars, bldVars, ledVars>>

ScanNext == ScanTokens \/ ScanMyTokens \/ ScanLoadTokens

SpecScan == ScanInit /\ [][ScanNext]_vars

(* ---- properties of the scans ---- *)
\* The classifier as specified: a drop opcode and a signature-check opcode among the
\* script's tokens, and a small value or a long script.
HasOpcode(asm, ops) == \E i \in 1..Len(Split(asm)) : Split(asm)[i] \in ops
LooksLikeToken(out) ==
    /\ HasOpcode(out.asm, {ASM_OP_DROP, ASM_OP_2DROP})
    /\ HasOpcode(out.asm, {ASM_OP_CHECKSIG})
    /\ (out.satoshis <= SmallValue \/ out.hexLen > LongScriptHex)

Scanned(fn) == callFn = fn /\ callPc = "returned" /\ callResult.status = 200

\* C15: the chain-scan classifier marks an output as a likely token exactly when its
\* script has a drop opcode and a signature-check opcode and (its value is at most
\* 100 satoshis or its script is longer than the length threshold).
C15_ClassifierRule ==
    /\ Scanned("tokens") =>
           \A k \in 1..Len(callResult.body.tokens) :
               LET t == callResult.body.tokens[k]
               IN t.isPushDrop <=> LooksLikeToken(callArgs.utxos[t.utxo])
    /\ Scanned("myTokens") =>
           callResult.body.allTokenCount =
               Cardinality({i \in 1..Len(callArgs.vout) : LooksLikeToken(callArgs.vout[i])})

\* The requested key is the token immediately before OP_CHECKSIG, both lower-cased
\* and trimmed.
OwnerKeyMatches(asm, identityKey) ==
    LET parts == Split(asm)
    IN \E j \in 2..Len(parts) :
           /\ parts[j] = ASM_OP_CHECKSIG
           /\ Trim(ToLowerCase(parts[j - 1])) = Trim(ToLowerCase(identityKey))

IsCallersToken(out, identityKey) ==
    MyTokensIsPushDrop(out) /\ OwnerKeyMatches(out.asm, identityKey)

\* C16: in the my-tokens scan an output is reported as the caller's token exactly
\* when it is classified as a likely token and the token immediately preceding
\* OP_CHECKSIG equals the requested identity key after lower-casing and trimming
\* both; tokenCount is the number of such outputs and never exceeds allTokenCount.
C16_CallersTokens ==
    Scanned("myTokens") =>
        LET body == callResult.body
            mine == {i \in 1..Len(callArgs.vout) :
                        IsCallersToken(callArgs.vout[i], callArgs.identityKey)}
        IN /\ body.tokenCount = Cardinality(mine)
           /\ body.tokenCount <= body.allTokenCount
           /\ \A k \in 1..Len(body.tokens) :
                  body.tokens[k].isPushDrop <=> body.tokens[k].vout \in mine

\* The items of a scan that do not fail.
GoodUtxos == {i \in 1..Len(callArgs.utxos) : callArgs.utxos[i].fetch = "ok"}
GoodViewerOutputs ==
    {i \in 1..Len(callArgs.outputs) :
        /\ callArgs.outputs[i].hasScript
        /\ callArgs.outputs[i].decodes
        /\ callArgs.completionTxid # "" => callArgs.outputs[i].txid = callArgs.completionTxid}

Reported(tokens, i, field) == Cardinality({k \in 1..Len(tokens) : tokens[k][field] = i}) = 1

\* C17: in a batch scan the failure of one item (a per-UTXO fetch that fails or
\* throws in the tokens API; an output that fails decoding or decryption in the
\* viewer) affects only that item: every other item is processed and reported, and
\* the scan as a whole does not fail.
C17_ItemFailureIsolated ==
    /\ (callFn = "tokens" /\ callPc = "returned" /\ callArgs.hasKey /\ callArgs.keyValid
            /\ callArgs.unspent = "ok" /\ callArgs.history # "rejects") =>
           /\ callResult.status = 200
           /\ \A i \in GoodUtxos : Reported(callResult.body.tokens, i, "utxo")
           /\ Len(callResult.body.tokens) = Cardinality(GoodUtxos)
    /\ (callFn = "loadTokens" /\ callPc = "returned" /\ callArgs.connected
            /\ callArgs.list = "ok") =>
           /\ callResult.hasData
           /\ callResult.error # "Error loading tokens"
           /\ \A i \in GoodViewerOutputs : Reported(callResult.tokens, i, "output")
           /\ Len(callResult.tokens) = Cardinality(GoodViewerOutputs)

\* A tokens scan of two unspent outputs, the first fetch rejecting: the second is
\* reported with status 200.
C17_Witness ==
    /\ Scanned("tokens")
    /\ Len(callArgs.utxos) = 2
    /\ callArgs.utxos[1].fetch = "rejects"
    /\ callArgs.utxos[2].fetch = "ok"
    /\ Len(callResult.body.tokens) = 1
    /\ callResult.body.tokens[1].utxo = 2

\* C18: whenever an indexer request of the tokens API fails (unspent, history or a
\* per-UTXO transaction fetch) the response signals the data as unknown or failed:
\* a successful response comes only from requests that all succeeded.
C18_FailureNotAbsence ==
    Scanned("tokens") =>
        /\ callArgs.unspent = "ok"
        /\ callArgs.history = "ok"
        /\ \A i \in 1..Len(callArgs.utxos) : callArgs.utxos[i].fetch = "ok"

(***************************************************************************)
(* Derived-key payments: the investment page (part_003), the invest API    *)
(* (part_007) and the setup script (server.ts, create).  Wallet keys live  *)
(* in a small group: a private key is an exponent, its public key a power  *)
(* of the generator, and the shared secret of two parties is the           *)
(* Diffie-Hellman value.  A call uses the variables of the call harness.   *)
(***************************************************************************)
MaxPriv == 4            \* private keys are 1..MaxPriv
GroupPrime == 23
GroupOrder == 22
Generator == 5

RECURSIVE PowMod(_, _)
PowMod(b, e) == IF e = 0 THEN 1 ELSE (b * PowMod(b, e - 1)) % GroupPrime

\* privateKey.toPublicKey()
ToPublicKey(priv) == PowMod(Generator, priv % GroupOrder)

\* publicKey.toString(): hex of the compressed encoding; PublicKey.fromString reads
\* it back.
PublicKeyToString(point) == HexEncode(<<2, point>>)
PublicKeyFromString(str) == HexToArray(str)[2]

\* Utils.toBase64(bytes)
B64Char(v) ==
    IF v < 26 THEN 65 + v ELSE IF v < 52 THEN 71 + v ELSE IF v < 62 THEN v - 4
    ELSE IF v = 62 THEN 43 ELSE 47

RECURSIVE ToBase64(_)
ToBase64(b) ==
    IF b = <<>> THEN <<>>
    ELSE IF Len(b) = 1
         THEN <<B64Char(b[1] \div 4), B64Char((b[1] % 4) * 16), 61, 61>>
    ELSE IF Len(b) = 2
         THEN <<B64Char(b[1] \div 4), B64Char((b[1] % 4) * 16 + b[2] \div 16),
                B64Char((b[2] % 16) * 4), 61>>
    ELSE <<B64Char(b[1] \div 4), B64Char((b[1] % 4) * 16 + b[2] \div 16),
           B64Char((b[2] % 16) * 4 + b[3] \div 64), B64Char(b[3] % 64)>>
         \o ToBase64(SubSeq(b, 4, Len(b)))

\* Utils.toArray(text, 'base64')
B64Value(c) ==
    IF c >= 65 /\ c <= 90 THEN c - 65 ELSE IF c >= 97 /\ c <= 122 THEN c - 71
    ELSE IF c >= 48 /\ c <= 57 THEN c + 4 ELSE IF c = 43 THEN 62 ELSE 63

RECURSIVE FromBase64(_)
FromBase64(t) ==
    IF Len(t) < 4 THEN <<>>
    ELSE LET v == [i \in 1..4 |-> B64Value(t[i])]
             b1 == v[1] * 4 + v[2] \div 16
             b2 == (v[2] % 16) * 16 + v[3] \div 4
             b3 == (v[3] % 4) * 64 + v[4]
         IN (IF t[3] = 61 THEN <<b1>> ELSE IF t[4] = 61 THEN <<b1, b2>> ELSE <<b1, b2, b3>>)
            \o FromBase64(SubSeq(t, 5, Len(t)))

\* const brc29ProtocolID: WalletProtocol = [2, '3241645161d8']
brc29ProtocolID == [level |-> 2, name |-> <<51, 50, 52, 49, 54, 52, 53, 49, 54, 49, 100, 56>>]

\* keyID: `${derivationPrefix} ${derivationSuffix}` on the paying side
PayerKeyId(prefix, suffix) == prefix \o <<32>> \o suffix

\* keyID without the separating space.
PayeeKeyId_NoSpace(prefix, suffix) == prefix \o suffix

\* keyID: `${derivationPrefix} ${derivationSuffix}` on the receiving side
PayeeKeyId(prefix, suffix) == prefix \o <<32>> \o suffix

\* The invoice number of a derivation: `${level}-${name}-${keyID}`
InvoiceNumber(protocolID, keyID) ==
    DecimalText(protocolID.level) \o <<45>> \o protocolID.name \o <<45>> \o keyID

\* The exponent a derivation adds: a keyed hash of the invoice number under the
\* shared secret of the two parties (the hash itself is opaque).
RECURSIVE TextSum(_, _, _)
TextSum(t, lo, hi) ==
    IF lo > hi THEN 0
    ELSE IF lo = hi THEN (lo * t[lo]) % GroupOrder
    ELSE (TextSum(t, lo, (lo + hi) \div 2) + TextSum(t, (lo + hi) \div 2 + 1, hi)) % GroupOrder

SharedSecret(priv, counterparty) == PowMod(counterparty, priv % GroupOrder)
DerivationOffset(priv, counterparty, invoice) ==
    (7 * SharedSecret(priv, counterparty) + TextSum(invoice, 1, Len(invoice))) % GroupOrder

\* wallet.getPublicKey({ protocolID, keyID, counterparty, forSelf }): with forSelf the
\* wallet's own child key, otherwise the counterparty's child key.
GetPublicKey(priv, args) ==
    LET h == DerivationOffset(priv, args.counterparty,
                              InvoiceNumber(args.protocolID, args.keyID))
    IN IF args.forSelf THEN ToPublicKey(priv + h)
       ELSE (args.counterparty * PowMod(Generator, h)) % GroupPrime

\* new P2PKH().lock(PublicKey.fromString(derivedPublicKey).toAddress()): the output
\* names the key it pays to.
PaymentOutput(derivedPublicKey, satoshis) ==
    [satoshis |-> satoshis, key |-> PublicKeyFromString(derivedPublicKey)]

\* The change output a wallet may add; its key is the wallet's own and no derived key.
ChangeKey == 0
ChangeSats == 5
ChangeOutput == [satoshis |-> ChangeSats, key |-> ChangeKey]

\* options.randomizeOutputs, true unless given
RandomizeOutputs(options) == IF options.present THEN options.value ELSE TRUE

Orderings(t) ==
    {[i \in 1..Len(t) |-> t[f[i]]] :
        f \in {g \in [1..Len(t) -> 1..Len(t)] : \A i, j \in 1..Len(t) : g[i] = g[j] => i = j}}

\* wallet.createAction({ outputs, options }): the transactions it may build.  The
\* wallet may add a change output after the requested ones, and shuffles the outputs
\* unless randomizeOutputs is false.
CreateAction(outputs, options) ==
    LET built == {outputs, outputs \o <<ChangeOutput>>}
    IN IF RandomizeOutputs(options) THEN UNION {Orderings(t) : t \in built} ELSE built

\* The bytes of a transaction (result.tx) and Transaction.fromBEEF: per output its
\* satoshis and the key its script pays to.
RECURSIVE TxToBytes(_)
TxToBytes(tx) ==
    IF tx = <<>> THEN <<>> ELSE <<Head(tx).satoshis, Head(tx).key>> \o TxToBytes(Tail(tx))
TxFromBytes(b) == [i \in 1..(Len(b) \div 2) |-> [satoshis |-> b[2 * i - 1], key |-> b[2 * i]]]

\* The key id a wallet builds from a payment remittance.
WalletKeyId(prefix, suffix) == prefix \o <<32>> \o suffix

\* wallet.internalizeAction({ tx, outputs: [{ outputIndex: 0, protocol: 'wallet
\* payment', paymentRemittance }] }): the wallet derives its own key for the
\* remittance and accepts the output that pays to it; anything else throws.
InternalizeAction(priv, tx, remittance) ==
    LET expected == GetPublicKey(priv,
                        [protocolID |-> brc29ProtocolID,
                         keyID |-> WalletKeyId(remittance.derivationPrefix,
                                               remittance.derivationSuffix),
                         counterparty |-> PublicKeyFromString(remittance.senderIdentityKey),
                         forSelf |-> TRUE])
    IN IF Len(tx) >= 1 /\ tx[1].key = expected THEN Returned([accepted |-> TRUE]) ELSE Threw

\* Date.now() as the text it is concatenated as.
NowTexts == {<<49, 55, 48, 48, 48, 48, 48, 48, 48, 48, 48, 48, 48>>,
             <<49, 55, 48, 48, 48, 48, 48, 48, 48, 48, 48, 48, 49>>,
             <<49, 55, 54, 50, 51, 48, 48, 56, 48, 48, 49, 50, 51>>}
InvestAmounts == {0, 1, 100}
SetupAmount == 10       \* const AMOUNT = 10

TextCrowdfunding == <<99, 114, 111, 119, 100, 102, 117, 110, 100, 105, 110, 103>>
TextInvestment == <<105, 110, 118, 101, 115, 116, 109, 101, 110, 116>>
TextKeyID == <<107, 101, 121, 73, 68>>
TextSomething == <<115, 111, 109, 101, 116, 104, 105, 110, 103, 73, 119, 111, 110, 116, 102, 111, 114, 103, 101, 116>>
FieldTransaction == <<116, 114, 97, 110, 115, 97, 99, 116, 105, 111, 110>>
FieldInvestorKey == <<105, 110, 118, 101, 115, 116, 111, 114, 75, 101, 121>>
FieldPrefix == <<100, 101, 114, 105, 118, 97, 116, 105, 111, 110, 80, 114, 101, 102, 105, 120>>
FieldSuffix == <<100, 101, 114, 105, 118, 97, 116, 105, 111, 110, 83, 117, 102, 102, 105, 120>>

\* req.body.<name>: undefined when the member is missing
Field(members, name) ==
    IF \E i \in 1..Len(members) : members[i][1] = name
    THEN Some(members[CHOOSE i \in 1..Len(members) : members[i][1] = name][2])
    ELSE Absent

NoPayer == [status |-> "none", investorKey |-> <<>>, derivationPrefix |-> <<>>,
            derivationSuffix |-> <<>>, keyID |-> <<>>, derivedPublicKey |-> <<>>,
            options |-> Absent, tx |-> <<>>, body |-> <<>>]
NoPayee == [status |-> 0, keyID |-> <<>>, backendKey |-> <<>>, accepted |-> FALSE]

PayInit ==
    /\ \/ /\ callFn = "invest"
          /\ callArgs \in [investorPriv : 1..MaxPriv, backendPriv : 1..MaxPriv,
                           now : NowTexts, amount : InvestAmounts]
       \/ /\ callFn = "setup"
          /\ callArgs \in [payerPriv : 1..MaxPriv, payeePriv : 1..MaxPriv]
    /\ callResult = [payer |-> NoPayer, payee |-> NoPayee]
    /\ callPc = "init"
    /\ OtherPartsIdle

\* invest() of the investment page up to createAction.  backendIdentityKey is what
\* /api/wallet-info answered: the backend wallet's identity key.
InvestCreate ==
    /\ callFn = "invest"
    /\ callPc = "init"
    /\ IF callArgs.amount < 1
       THEN /\ callResult' = [callResult EXCEPT !.payer.status = "invalid amount"]
            /\ callPc' = "returned"
       ELSE LET derivationPrefix == ToBase64(Utf8Encode(TextCrowdfunding))
                derivationSuffix == ToBase64(Utf8Encode(TextInvestment \o callArgs.now))
                investorKey == PublicKeyToString(ToPublicKey(callArgs.investorPriv))
                backendIdentityKey == PublicKeyToString(ToPublicKey(callArgs.backendPriv))
                keyID == PayerKeyId(derivationPrefix, derivationSuffix)
                derivedPublicKey ==
                    PublicKeyToString(GetPublicKey(callArgs.investorPriv,
                        [counterparty |-> PublicKeyFromString(backendIdentityKey),
                         protocolID |-> brc29ProtocolID,
                         keyID |-> keyID,
                         forSelf |-> FALSE]))
                options == Some(FALSE)
            IN \E tx \in CreateAction(<<PaymentOutput(derivedPublicKey, callArgs.amount)>>,
                                      options) :
                   /\ callResult' = [callResult EXCEPT !.payer =
                          [status |-> "created", investorKey |-> investorKey,
                           derivationPrefix |-> derivationPrefix,
                           derivationSuffix |-> derivationSuffix, keyID |-> keyID,
                           derivedPublicKey |-> derivedPublicKey, options |-> options,
                           tx |-> tx, body |-> <<>>]]
                   /\ callPc' = "created"
    /\ UNCHANGED <<callFn, callArgs, tokVars, asmVars, bldVars, ledVars>>

\* fetch('/api/invest', { body: JSON.stringify({ transaction, investorKey,
\* derivationPrefix, derivationSuffix }) })
InvestPost ==
    /\ callFn = "invest"
    /\ callPc = "created"
    /\ callResult' = [callResult EXCEPT !.payer.body =
           JsonStringify(<< <<FieldTransaction, ToBase64(TxToBytes(callResult.payer.tx))>>,
                            <<FieldInvestorKey, callResult.payer.investorKey>>,
                            <<FieldPrefix, callResult.payer.derivationPrefix>>,
                            <<FieldSuffix, callResult.payer.derivationSuffix>> >>),
                                     !.payer.status = "posted"]
    /\ callPc' = "posted"
    /\ UNCHANGED <<callFn, callArgs, tokVars, asmVars, bldVars, ledVars>>

\* The invest API up to the result of internalizeAction (the campaign is open).
InvestHandler(backendPriv, bodyText) ==
    LET parsed == JsonParse(bodyText)
        body == IF parsed.ok THEN parsed.value ELSE <<>>
        transaction == Field(body, FieldTransaction)
        investorKey == Field(body, FieldInvestorKey)
        derivationPrefix == Field(body, FieldPrefix)
        derivationSuffix == Field(body, FieldSuffix)
    IN IF ~(TruthyString(transaction) /\ TruthyString(investorKey)
            /\ TruthyString(derivationPrefix) /\ TruthyString(derivationSuffix))
       THEN [NoPayee EXCEPT !.status = 400]
       ELSE LET parsedTx == TxFromBytes(FromBase64(transaction.value))
                keyID == PayeeKeyId(derivationPrefix.value, derivationSuffix.value)
                backendKey ==
                    PublicKeyToString(GetPublicKey(backendPriv,
                        [protocolID |-> brc29ProtocolID,
                         keyID |-> keyID,
                         counterparty |-> PublicKeyFromString(investorKey.value),
                         forSelf |-> TRUE]))
                result == InternalizeAction(backendPriv, parsedTx,
                              [derivationPrefix |-> derivationPrefix.value,
                               derivationSuffix |-> derivationSuffix.value,
                               senderIdentityKey |-> investorKey.value])
            IN IF parsedTx[1].satoshis = 0 THEN [NoPayee EXCEPT !.status = 400]
               ELSE IF result.threw
                    THEN [status |-> 400, keyID |-> keyID, backendKey |-> backendKey,
                          accepted |-> FALSE]
               ELSE [status |-> 200, keyID |-> keyID, backendKey |-> backendKey,
                     accepted |-> result.value.accepted]

InvestHandle ==
    /\ callFn = "invest"
    /\ callPc = "posted"
    /\ callResult' = [callResult EXCEPT !.payee =
                          InvestHandler(callArgs.backendPriv, callResult.payer.body)]
    /\ callPc' = "returned"
    /\ UNCHANGED <<callFn, callArgs, tokVars, asmVars, bldVars, ledVars>>

\* create() of the setup script up to createAction: the local wallet pays the new
\* backend key; createAction gets no options.
SetupCreate ==
    /\ callFn = "setup"
    /\ callPc = "init"
    /\ LET derivationPrefix == ToBase64(Utf8Encode(TextKeyID))
           derivationSuffix == ToBase64(Utf8Encode(TextSomething))
           payer == PublicKeyToString(ToPublicKey(callArgs.payerPriv))
           payee == PublicKeyToString(ToPublicKey(callArgs.payeePriv))
           keyID == PayerKeyId(derivationPrefix, derivationSuffix)
           derivedPublicKey ==
               PublicKeyToString(GetPublicKey(callArgs.payerPriv,
                   [counterparty |-> PublicKeyFromString(payee),
                    protocolID |-> brc29ProtocolID,
                    keyID |-> keyID,
                    forSelf |-> FALSE]))
           options == Absent
       IN \E tx \in CreateAction(<<PaymentOutput(derivedPublicKey, SetupAmount)>>, options) :
              callResult' = [callResult EXCEPT !.payer =
                  [status |-> "created", investorKey |-> payer,
                   derivationPrefix |-> derivationPrefix,
                   derivationSuffix |-> derivationSuffix, keyID |-> keyID,
                   derivedPublicKey |-> derivedPublicKey, options |-> options,
                   tx |-> tx, body |-> <<>>]]
    /\ callPc' = "created"
    /\ UNCHANGED <<callFn, callArgs, tokVars, asmVars, bldVars, ledVars>>

\* create() of the setup script: the backend wallet internalizes output 0; a throw
\* ends the script in create().catch(console.error).
SetupInternalize ==
    /\ callFn = "setup"
    /\ callPc = "created"
    /\ LET result == InternalizeAction(callArgs.payeePriv, callResult.payer.tx,
                         [derivationPrefix |-> callResult.payer.derivationPrefix,
                          derivationSuffix |-> callResult.payer.derivationSuffix,
                          senderIdentityKey |-> callResult.payer.investorKey])
       IN callResult' = [callResult EXCEPT !.payee =
              [NoPayee EXCEPT !.status = IF result.threw THEN 1 ELSE 0,
                              !.accepted = ~result.threw]]
    /\ callPc' = "returned"
    /\ UNCHANGED <<callFn, callArgs, tokVars, asmVars, bldVars, ledVars>>

PayNext == InvestCreate \/ InvestPost \/ InvestHandle \/ SetupCreate \/ SetupInternalize

SpecPayment == PayInit /\ [][PayNext]_vars

(* ---- properties of the derived-key payments ---- *)
\* C19: for every investment the payer derives the locking key with protocol
\* [2, '3241645161d8'], keyID = prefix, one space, suffix, counterparty = the backend
\* identity key and forSelf = false; the payee re-derives with the same protocol, the
\* prefix and suffix it was sent, counterparty = the investor identity key and
\* forSelf = true.  Both use the same key identifier and derive the same public
\* key, so the payment built by the frontend is the one the backend accepts.
C19_DerivationSymmetry ==
    (callFn = "invest" /\ callPc = "returned" /\ callResult.payer.status = "posted") =>
        /\ callResult.payee.keyID = callResult.payer.keyID
        /\ callResult.payee.keyID =
               callResult.payer.derivationPrefix \o <<32>> \o callResult.payer.derivationSuffix
        /\ callResult.payee.backendKey = callResult.payer.derivedPublicKey
        /\ callResult.payee.status = 200
        /\ callResult.payee.accepted

\* An investment of 100 satoshis whose transaction carries a change output has been
\* accepted by the backend.
C19_Witness ==
    /\ callFn = "invest"
    /\ callPc = "returned"
    /\ callArgs.amount = 100
    /\ callArgs.investorPriv # callArgs.backendPriv
    /\ Len(callResult.payer.tx) = 2
    /\ callResult.payee.accepted
    /\ callResult.payee.backendKey = callResult.payer.derivedPublicKey

\* The output a payment transaction was built for.
IsPaymentOutput(out) == out.key = PublicKeyFromString(callResult.payer.derivedPublicKey)

\* C20: every transaction whose output 0 is later internalized as a wallet payment
\* (the frontend's investment payments and the setup script's funding payment) is
\* created with output randomization disabled and with the derived-key payment
\* output first, so the payment output is at index 0 when the payee claims it.
C20_PaymentOutputFirst ==
    (callFn \in {"invest", "setup"} /\ callPc \in {"created", "posted", "returned"}
        /\ callResult.payer.tx # <<>>) =>
        /\ callResult.payer.options = Some(FALSE)
        /\ IsPaymentOutput(callResult.payer.tx[1])

(***************************************************************************)
(* The campaign state file (lib/storage.ts): saveCrowdfundingData writes    *)
(* JSON.stringify(state, null, 2), loadCrowdfundingData reads it back with  *)
(* JSON.parse.  An identity key is the text of a key; a timestamp is kept   *)
(* as its decimal digits (Date.now() does not fit a TLC integer).           *)
(***************************************************************************)
MaxStoreReq == 3        \* requests and restarts of one run

TextGoal == <<103, 111, 97, 108>>
TextRaised == <<114, 97, 105, 115, 101, 100>>
TextInvestors == <<105, 110, 118, 101, 115, 116, 111, 114, 115>>
TextIsComplete == <<105, 115, 67, 111, 109, 112, 108, 101, 116, 101>>
TextIdentityKey == <<105, 100, 101, 110, 116, 105, 116, 121, 75, 101, 121>>
TextAmount == <<97, 109, 111, 117, 110, 116>>
TextTimestamp == <<116, 105, 109, 101, 115, 116, 97, 109, 112>>
TextTrue == <<116, 114, 117, 101>>
TextFalse == <<102, 97, 108, 115, 101>>

\* Default state (storage.ts 18-23)
StoreDefault == [goal |-> GoalApi, raised |-> 0, investors |-> <<>>, isComplete |-> FALSE]

\* JSON.stringify(value, null, 2): a member line is the indentation, the quoted name,
\* a colon, a space and the value; lines are joined by ",\n".
Spaces(n) == [i \in 1..n |-> 32]
MemberLine(indent, name, valueText) == Spaces(indent) \o JsonQuote(name) \o <<58, 32>> \o valueText

RECURSIVE JoinLines(_)
JoinLines(lines) ==
    IF lines = <<>> THEN <<>>
    ELSE IF Len(lines) = 1 THEN lines[1]
    ELSE lines[1] \o <<44, 10>> \o JoinLines(Tail(lines))

BoolText(b) == IF b THEN TextTrue ELSE TextFalse

InvestorText(inv) ==
    Spaces(4) \o <<123, 10>>
    \o JoinLines(<<MemberLine(6, TextIdentityKey, JsonQuote(inv.identityKey)),
                   MemberLine(6, TextAmount, DecimalText(inv.amount)),
                   MemberLine(6, TextTimestamp, inv.timestamp)>>)
    \o <<10>> \o Spaces(4) \o <<125>>

InvestorsText(investors) ==
    IF investors = <<>> THEN <<91, 93>>
    ELSE <<91, 10>> \o JoinLines([i \in 1..Len(investors) |-> InvestorText(investors[i])])
         \o <<10>> \o Spaces(2) \o <<93>>

StateText(state) ==
    <<123, 10>>
    \o JoinLines(<<MemberLine(2, TextGoal, DecimalText(state.goal)),
                   MemberLine(2, TextRaised, DecimalText(state.raised)),
                   MemberLine(2, TextInvestors, InvestorsText(state.investors)),
                   MemberLine(2, TextIsComplete, BoolText(state.isComplete))>>)
    \o <<10, 125>>

\* JSON.parse: a value is [t, s, items]: t its type, s the characters of a string or
\* the digits of a number, items the elements of an array or the members
\* <<name, value>> of an object.
JsonValue(t, s, items) == [t |-> t, s |-> s, items |-> items]
Parsed(pos, value) == [ok |-> TRUE, pos |-> pos, value |-> value]

RECURSIVE DigitsEnd(_, _)
DigitsEnd(t, i) == IF i <= Len(t) /\ t[i] >= 48 /\ t[i] <= 57 THEN DigitsEnd(t, i + 1) ELSE i

IsAt(t, i, word) == i + Len(word) - 1 <= Len(t) /\ SubSeq(t, i, i + Len(word) - 1) = word

RECURSIVE ParseValue(_, _)
RECURSIVE ParseElements(_, _, _)
RECURSIVE ParseMembers(_, _, _)
ParseValue(t, i) ==
    LET j == SkipWs(t, i)
    IN IF j > Len(t) THEN JsonFail
       ELSE IF t[j] = 34
            THEN LET r == JsonReadString(t, j)
                 IN IF r.ok THEN Parsed(r.pos, JsonValue("string", r.value, <<>>)) ELSE JsonFail
       ELSE IF t[j] >= 48 /\ t[j] <= 57
            THEN Parsed(DigitsEnd(t, j), JsonValue("number", SubSeq(t, j, DigitsEnd(t, j) - 1), <<>>))
       ELSE IF IsAt(t, j, TextTrue) THEN Parsed(j + 4, JsonValue("true", <<>>, <<>>))
       ELSE IF IsAt(t, j, TextFalse) THEN Parsed(j + 5, JsonValue("false", <<>>, <<>>))
       ELSE IF t[j] = 91
            THEN LET k == SkipWs(t, j + 1)
                 IN IF k <= Len(t) /\ t[k] = 93 THEN Parsed(k + 1, JsonValue("array", <<>>, <<>>))
                    ELSE ParseElements(t, k, <<>>)
       ELSE IF t[j] = 123
            THEN LET k == SkipWs(t, j + 1)
                 IN IF k <= Len(t) /\ t[k] = 125 THEN Parsed(k + 1, JsonValue("object", <<>>, <<>>))
                    ELSE ParseMembers(t, k, <<>>)
       ELSE JsonFail

ParseElements(t, i, acc) ==
    LET v == ParseValue(t, i)
    IN IF ~v.ok THEN JsonFail
       ELSE LET k == SkipWs(t, v.pos)
            IN IF k > Len(t) THEN JsonFail
               ELSE IF t[k] = 44 THEN ParseElements(t, k + 1, Append(acc, v.value))
               ELSE IF t[k] = 93 THEN Parsed(k + 1, JsonValue("array", <<>>, Append(acc, v.value)))
               ELSE JsonFail

ParseMembers(t, i, acc) ==
    LET name == JsonReadString(t, SkipWs(t, i))
    IN IF ~name.ok THEN JsonFail
       ELSE LET c == SkipWs(t, name.pos)
            IN IF c > Len(t) \/ t[c] # 58 THEN JsonFail
               ELSE LET v == ParseValue(t, c + 1)
                    IN IF ~v.ok THEN JsonFail
                       ELSE LET k == SkipWs(t, v.pos)
                                acc2 == Append(acc, <<name.value, v.value>>)
                            IN IF k > Len(t) THEN JsonFail
                               ELSE IF t[k] = 44 THEN ParseMembers(t, k + 1, acc2)
                               ELSE IF t[k] = 125
                                    THEN Parsed(k + 1, JsonValue("object", <<>>, acc2))
                               ELSE JsonFail

\* JSON.parse(text): returns the value or throws.
JsonParseValue(text) ==
    LET r == ParseValue(text, 1)
    IN IF r.ok /\ SkipWs(text, r.pos) > Len(text) THEN Returned(r.value) ELSE Threw

\* Reading the parsed object as a CrowdfundingState: object.name, undefined when the
\* object has no such member.
Undefined == JsonValue("undefined", <<>>, <<>>)
Member(object, name) ==
    LET hits == {i \in 1..Len(object.items) : object.items[i][1] = name}
    IN IF object.t # "object" \/ hits = {} THEN Undefined
       ELSE object.items[CHOOSE i \in hits : \A j \in hits : j <= i][2]

RECURSIVE NumberOfDigits(_)
NumberOfDigits(digits) ==
    IF digits = <<>> THEN 0
    ELSE 10 * NumberOfDigits(SubSeq(digits, 1, Len(digits) - 1)) + (digits[Len(digits)] - 48)

InvestorOfJson(v) ==
    [identityKey |-> Member(v, TextIdentityKey).s,
     amount |-> NumberOfDigits(Member(v, TextAmount).s),
     timestamp |-> Member(v, TextTimestamp).s]

StateOfJson(v) ==
    [goal |-> NumberOfDigits(Member(v, TextGoal).s),
     raised |-> NumberOfDigits(Member(v, TextRaised).s),
     investors |-> [i \in 1..Len(Member(v, TextInvestors).items) |->
                       InvestorOfJson(Member(v, TextInvestors).items[i])],
     isComplete |-> Member(v, TextIsComplete).t = "true"]

\* The data file: missing, or present with a text; readFileSync of a present file may
\* throw (readable = FALSE).
NoFile == [exists |-> FALSE, readable |-> FALSE, text |-> <<>>]
FileWith(text) == [exists |-> TRUE, readable |-> TRUE, text |-> text]

\* loadCrowdfundingData(): existsSync, then readFileSync and JSON.parse inside
\* try/catch; the default state otherwise.
LoadStateFrom(file) ==
    IF file.exists
    THEN LET outcome == IF file.readable THEN JsonParseValue(file.text) ELSE Threw
         IN IF outcome.threw THEN StoreDefault ELSE StateOfJson(outcome.value)
    ELSE StoreDefault

\* saveCrowdfundingData(state): writeFileSync inside try/catch; when it throws the
\* error is logged and the file stays as it was.
WriteOutcomes == {"written", "threw"}
SaveStateTo(file, state, outcome) ==
    IF outcome = "written" THEN FileWith(StateText(state)) ELSE file

(***************************************************************************)
(* The API server with its state file, one request at a time: the module   *)
(* state is loaded when the server starts (part_012), the invest handler   *)
(* (part_007) and the batch complete handler (complete.ts 7-94) save after *)
(* they changed it.  Here `crowdfunding` has the fields of the file,       *)
(* `disk` is the file, callArgs counts the steps and callResult holds the  *)
(* last response with the state as of the last successful request.         *)
(***************************************************************************)
StoreKeys == {<<48, 50, 97, 97>>, <<48, 51, 34, 98>>}
StoreSats == {40, 100}
StoreTimestamps == {<<49, 55, 48, 48, 48, 48, 48, 48, 48, 48, 48, 48, 48>>, <<49, 55, 54, 50, 51, 48, 48, 56, 48, 48, 49, 50, 51>>}

StoreInit ==
    /\ callFn = "store"
    /\ callArgs = [served |-> 0]
    /\ callResult = [response |-> "started", saved |-> StoreDefault]
    /\ callPc = "running"
    /\ crowdfunding = StoreDefault
    /\ disk = NoFile
    /\ deployment = "none" /\ pc = <<>> /\ req = <<>> /\ txLog = <<>> /\ paid = <<>>
    /\ TokIdle /\ AsmIdle /\ BldIdle

StoreStep ==
    /\ callFn = "store"
    /\ callArgs.served < MaxStoreReq
    /\ callArgs' = [served |-> callArgs.served + 1]
    /\ UNCHANGED <<callFn, callPc, deployment, pc, req, txLog, paid, tokVars, asmVars, bldVars>>

Respond(response) ==
    callResult' = [response |-> response,
                   saved |-> IF response = "success" THEN crowdfunding' ELSE callResult.saved]

\* find-or-create with the timestamp (part_007 81-97)
StoreRecord(cf, key, amount, now) ==
    LET i == FindInvestor(cf.investors, key)
    IN [cf EXCEPT !.investors =
                      IF i > 0 THEN [@ EXCEPT ![i].amount = @ + amount, ![i].timestamp = now]
                      ELSE Append(@, [identityKey |-> key, amount |-> amount, timestamp |-> now]),
                  !.raised = @ + amount]

\* POST /api/invest (part_007), run to its response.
StoreInvest ==
    /\ StoreStep
    /\ \E key \in StoreKeys, sats \in StoreSats, now \in StoreTimestamps,
          outcome \in InternalizeOutcomes, written \in WriteOutcomes :
          IF crowdfunding.isComplete
          THEN Respond("Crowdfunding already complete") /\ UNCHANGED <<crowdfunding, disk>>
          ELSE IF outcome # "accepted"
          THEN /\ Respond(IF outcome = "rejected" THEN "Payment not accepted" ELSE "Payment failed")
               /\ UNCHANGED <<crowdfunding, disk>>
          ELSE /\ crowdfunding' = StoreRecord(crowdfunding, key, sats, now)
               /\ disk' = SaveStateTo(disk, crowdfunding', written)
               /\ Respond("success")

\* POST /api/complete, batch distribution (complete.ts 7-94), run to its response.
StoreComplete ==
    /\ StoreStep
    /\ \E outcome \in {"ok", "fail"}, written \in WriteOutcomes :
          IF crowdfunding.isComplete
          THEN Respond("Already completed") /\ UNCHANGED <<crowdfunding, disk>>
          ELSE IF GoalNotReached(crowdfunding)
          THEN Respond("Goal not reached") /\ UNCHANGED <<crowdfunding, disk>>
          ELSE IF outcome = "fail"
          THEN Respond("Failed to create transaction") /\ UNCHANGED <<crowdfunding, disk>>
          ELSE /\ crowdfunding' = [crowdfunding EXCEPT !.isComplete = TRUE]
               /\ disk' = SaveStateTo(disk, crowdfunding', written)
               /\ Respond("success")

\* The server process starts again: export const crowdfunding = loadCrowdfundingData()
StoreRestart ==
    /\ StoreStep
    /\ crowdfunding' = LoadStateFrom(disk)
    /\ disk' = disk
    /\ Respond("restarted")

\* Between requests the file is removed, becomes unreadable, or loses its tail.
StoreFileDamaged ==
    /\ StoreStep
    /\ disk.exists
    /\ disk' \in {NoFile, [disk EXCEPT !.readable = FALSE],
                  FileWith(SubSeq(disk.text, 1, Len(disk.text) \div 2))}
    /\ crowdfunding' = crowdfunding
    /\ Respond("file damaged")

StoreNext == StoreInvest \/ StoreComplete \/ StoreRestart \/ StoreFileDamaged

SpecStore == StoreInit /\ [][StoreNext]_vars

(* ---- properties of the state file ---- *)
FileIsUnusable == ~disk.exists \/ ~disk.readable \/ JsonParseValue(disk.text).threw

\* C23: after every successful invest or complete request the state saved on disk
\* equals the in-memory campaign state, and loadCrowdfundingData after
\* saveCrowdfundingData(s) returns s, so a restart between requests restores
\* exactly the ledger as of the last successful request; when the data file is
\* missing or unreadable, load returns the default state (goal 100, raised 0, no
\* investors, not complete) without raising.
C23_SavedStateIsLedger ==
    /\ callResult.response = "success" => LoadStateFrom(disk) = crowdfunding
    /\ LoadStateFrom(SaveStateTo(disk, crowdfunding, "written")) = crowdfunding
    /\ (callResult.response = "restarted" /\ ~FileIsUnusable) => crowdfunding = callResult.saved
    /\ FileIsUnusable => LoadStateFrom(disk) = StoreDefault

====
